---- MODULE Spec2Model ----
(***************************************************************************)
(* Fix Applicator of Bug-Fixing-AI-Assistant (src/fixer/fix_applicator.py) *)
(* with the validator and the deterministic fix generator it works with.   *)
(*                                                                         *)
(* Text is a sequence of tokens.  A token is a run of characters that      *)
(* holds no line break; the token "\n" is the line break.  The patterns    *)
(* the code searches for ("== None", "!= None", "except:") are token       *)
(* sequences, and the alphabet is chosen so that an occurrence of a        *)
(* pattern in the characters is an occurrence in the tokens.               *)
(***************************************************************************)
EXTENDS Integers, Sequences, FiniteSets, TLC

\* ---------------------------------------------------------------- bounds
\* apply_fix calls (direct or inside a batch) over one run of the model
MaxApplies == 2
\* longest list handed to apply_fixes_batch
MaxBatch == 2
\* longest explicit list handed to restore_backups
MaxRestore == 2

\* ------------------------------------------------------------ Python values
\* Optional[str]: None is the empty tuple, a value v is <<v>>
None == <<>>
Some(v) == <<v>>
NL == "\n"

\* ------------------------------------------------------------ str helpers
\* s.endswith("\n")
endswith_nl(s) == s # <<>> /\ s[Len(s)] = NL

\* index of the first line break of s, 0 when there is none
RECURSIVE FirstNL(_, _)
FirstNL(s, i) ==
    IF i > Len(s) THEN 0
    ELSE IF s[i] = NL THEN i
    ELSE FirstNL(s, i + 1)

\* s.splitlines(keepends=True)
RECURSIVE splitlines(_)
splitlines(s) ==
    IF s = <<>> THEN <<>>
    ELSE LET k == FirstNL(s, 1)
         IN  IF k = 0 THEN <<s>>
             ELSE <<SubSeq(s, 1, k)>> \o splitlines(SubSeq(s, k + 1, Len(s)))

\* "".join(lines)
RECURSIVE join(_)
join(lines) ==
    IF lines = <<>> THEN <<>> ELSE Head(lines) \o join(Tail(lines))

\* pat occurs in s at position i
OccursAt(s, pat, i) ==
    /\ i + Len(pat) - 1 <= Len(s)
    /\ SubSeq(s, i, i + Len(pat) - 1) = pat

\* pat in s
contains(s, pat) == \E i \in 1..Len(s) : OccursAt(s, pat, i)

\* s.replace(pat, rep): every non-overlapping occurrence, left to right
RECURSIVE replace(_, _, _)
replace(s, pat, rep) ==
    IF s = <<>> THEN <<>>
    ELSE IF OccursAt(s, pat, 1)
         THEN rep \o replace(SubSeq(s, Len(pat) + 1, Len(s)), pat, rep)
         ELSE <<Head(s)>> \o replace(Tail(s), pat, rep)

\* ------------------------------------------------ fixer/validators/fix_validator.py
\* tokens the Python grammar accepts in the places the model puts them
PyTokens ==
    {"x", "s", " ", "==", "!=", "None", "is", "not", "try", "except",
     "Exception", ":", "pass", "eval", "lit", "(", ")", "from", "m",
     "import", "*", NL}

\* bracket depth after each token never drops below 0 and ends at 0
RECURSIVE Balanced(_, _)
Balanced(code, depth) ==
    IF code = <<>> THEN depth = 0
    ELSE IF Head(code) = "(" THEN Balanced(Tail(code), depth + 1)
    ELSE IF Head(code) = ")" THEN depth > 0 /\ Balanced(Tail(code), depth - 1)
    ELSE Balanced(Tail(code), depth)

\* ast.parse(code) raises no SyntaxError
ast_parse_ok(code) ==
    /\ \A i \in 1..Len(code) : code[i] \in PyTokens
    /\ Balanced(code, 0)

_validate_python_syntax(code) ==
    IF ast_parse_ok(code)
    THEN [valid |-> TRUE, message |-> "Syntax is valid"]
    ELSE [valid |-> FALSE, message |-> "Syntax error"]

validate_syntax(code, language) ==
    IF language = "python" THEN _validate_python_syntax(code)
    ELSE [valid |-> FALSE, message |-> "Unsupported language"]

\* validate_fix that holds the original to the same test
validate_fix_both(original_code, fixed_code) ==
    IF ~validate_syntax(fixed_code, "python").valid
       \/ ~validate_syntax(original_code, "python").valid
    THEN [valid |-> FALSE, message |-> "Fix introduces syntax errors",
          details |-> validate_syntax(fixed_code, "python")]
    ELSE [valid |-> TRUE, message |-> "Fix is valid"]

validate_fix(original_code, fixed_code) ==
    IF ~validate_syntax(fixed_code, "python").valid
    THEN [valid |-> FALSE, message |-> "Fix introduces syntax errors",
          details |-> validate_syntax(fixed_code, "python")]
    ELSE [valid |-> TRUE, message |-> "Fix is valid"]

\* ------------------------------------------------ fixer/generators/fix_generator.py
_fix_none_comparison(issue) ==
    [issue |-> issue, fix_type |-> "replace",
     suggestion |-> <<"Replace \"== None\" with \"is None\" or \"!= None\" with \"is not None\"">>,
     automated |-> FALSE]

_fix_bare_except(issue) ==
    [issue |-> issue, fix_type |-> "replace",
     suggestion |-> <<"Replace \"except:\" with \"except Exception:\" or more specific exception">>,
     automated |-> FALSE]

_fix_dangerous_eval(issue) ==
    [issue |-> issue, fix_type |-> "refactor",
     suggestion |-> <<"Consider using ast.literal_eval() for literals or json.loads() for JSON">>,
     automated |-> FALSE]

_fix_wildcard_import(issue) ==
    [issue |-> issue, fix_type |-> "replace",
     suggestion |-> <<"Import only the specific names you need">>,
     automated |-> FALSE]

\* generate_fix without the entry for wildcard_import
generate_fix_three(issue) ==
    IF issue.type = "none_comparison" THEN Some(_fix_none_comparison(issue))
    ELSE IF issue.type = "bare_except" THEN Some(_fix_bare_except(issue))
    ELSE IF issue.type = "dangerous_eval" THEN Some(_fix_dangerous_eval(issue))
    ELSE None

\* Optional[Fix]
generate_fix(issue) ==
    IF issue.type = "none_comparison" THEN Some(_fix_none_comparison(issue))
    ELSE IF issue.type = "bare_except" THEN Some(_fix_bare_except(issue))
    ELSE IF issue.type = "dangerous_eval" THEN Some(_fix_dangerous_eval(issue))
    ELSE IF issue.type = "wildcard_import" THEN Some(_fix_wildcard_import(issue))
    ELSE None

\* ------------------------------------------------ fixer/ai_fixer.py
\* the Fix built from a well-formed reply of the AI collaborator
_parse_ai_response(issue, fixed_code, changes) ==
    [issue |-> issue, fix_type |-> "ai_generated", suggestion |-> fixed_code,
     changes |-> changes, automated |-> TRUE]

\* ------------------------------------------------ fixer/fix_applicator.py (pure part)
\* fix.get("changes", [])
get_changes(fix) == IF "changes" \in DOMAIN fix THEN fix.changes ELSE <<>>

\* the text as it is given
with_nl_never(text) == text

\* text if text.endswith("\n") else text + "\n"
with_nl(text) == IF endswith_nl(text) THEN text ELSE text \o <<NL>>

\* sorted(changes, key=line_number, reverse=True): stable, equal keys keep their order
RECURSIVE insert_sorted(_, _)
insert_sorted(sorted, c) ==
    IF sorted = <<>> THEN <<c>>
    ELSE IF Head(sorted).line_number >= c.line_number
         THEN <<Head(sorted)>> \o insert_sorted(Tail(sorted), c)
         ELSE <<c>> \o sorted

RECURSIVE sorted_changes(_)
sorted_changes(changes) ==
    IF changes = <<>> THEN <<>>
    ELSE insert_sorted(sorted_changes(SubSeq(changes, 1, Len(changes) - 1)),
                       changes[Len(changes)])

\* the loop over sorted_changes left after its first turn
apply_changes_once(sorted, lines) ==
    IF sorted = <<>> THEN lines
    ELSE IF /\ Head(sorted).line_number # 0
            /\ "new_code" \in DOMAIN Head(sorted)
            /\ 1 <= Head(sorted).line_number /\ Head(sorted).line_number <= Len(lines)
         THEN [lines EXCEPT ![Head(sorted).line_number] = with_nl(Head(sorted).new_code)]
         ELSE lines

\* the loop over sorted_changes
RECURSIVE apply_changes(_, _)
apply_changes(sorted, lines) ==
    IF sorted = <<>> THEN lines
    ELSE LET change == Head(sorted)
             line_num == change.line_number
         IN  apply_changes(Tail(sorted),
                 IF /\ line_num # 0
                    /\ "new_code" \in DOMAIN change
                    /\ 1 <= line_num /\ line_num <= Len(lines)
                 THEN [lines EXCEPT ![line_num] = with_nl(change.new_code)]
                 ELSE lines)

\* issue.get("line"): 0 stands for None as well, `not line_number` holds of both
get_line(issue) == IF "line" \in DOMAIN issue THEN issue.line ELSE 0

\* _apply_simple_fix without its branch for wildcard_import
_apply_simple_fix_any(fix, content) ==
    LET issue_type == fix.issue.type
        line_number == get_line(fix.issue)
        lines == splitlines(content)
    IN  IF line_number = 0 THEN None
        ELSE IF line_number < 1 \/ line_number > Len(lines) THEN None
        ELSE LET original_line == lines[line_number]
                 suggestion == fix.suggestion
                 by_suggestion ==
                     IF suggestion # <<>> /\ Len(splitlines(suggestion)) = 1
                     THEN Some(join([lines EXCEPT ![line_number] = with_nl(suggestion)]))
                     ELSE None
             IN  IF issue_type = "none_comparison"
                 THEN Some(join([lines EXCEPT ![line_number] =
                          replace(replace(original_line, <<"==", " ", "None">>, <<"is", " ", "None">>),
                                  <<"!=", " ", "None">>, <<"is", " ", "not", " ", "None">>)]))
                 ELSE IF issue_type = "bare_except"
                 THEN IF contains(original_line, <<"except", ":">>)
                      THEN Some(join([lines EXCEPT ![line_number] =
                               replace(original_line, <<"except", ":">>,
                                       <<"except", " ", "Exception", ":">>)]))
                      ELSE by_suggestion
                 ELSE by_suggestion

\* Optional[str]
_apply_simple_fix(fix, content) ==
    LET issue_type == fix.issue.type
        line_number == get_line(fix.issue)
        lines == splitlines(content)
    IN  IF line_number = 0 THEN None
        ELSE IF line_number < 1 \/ line_number > Len(lines) THEN None
        ELSE LET original_line == lines[line_number]
                 suggestion == fix.suggestion
                 by_suggestion ==
                     IF suggestion # <<>> /\ Len(splitlines(suggestion)) = 1
                     THEN Some(join([lines EXCEPT ![line_number] = with_nl(suggestion)]))
                     ELSE None
             IN  IF issue_type = "none_comparison"
                 THEN Some(join([lines EXCEPT ![line_number] =
                          replace(replace(original_line, <<"==", " ", "None">>, <<"is", " ", "None">>),
                                  <<"!=", " ", "None">>, <<"is", " ", "not", " ", "None">>)]))
                 ELSE IF issue_type = "bare_except"
                 THEN IF contains(original_line, <<"except", ":">>)
                      THEN Some(join([lines EXCEPT ![line_number] =
                               replace(original_line, <<"except", ":">>,
                                       <<"except", " ", "Exception", ":">>)]))
                      ELSE by_suggestion
                 ELSE IF issue_type = "wildcard_import" THEN None
                 ELSE by_suggestion

\* Optional[str]
_apply_fix_to_content(fix, content) ==
    IF get_changes(fix) = <<>> THEN _apply_simple_fix(fix, content)
    ELSE Some(join(apply_changes(sorted_changes(get_changes(fix)), splitlines(content))))

\* ------------------------------------------------ difflib.unified_diff
\* lines of context around a change: the default n of difflib.unified_diff
DiffContext == 3

Max2(x, y) == IF x >= y THEN x ELSE y
Min2(x, y) == IF x <= y THEN x ELSE y

\* length of the common run of a[i..ahi-1] and b[j..bhi-1] (0-based, half-open)
RECURSIVE MatchLen(_, _, _, _, _, _)
MatchLen(a, i, ahi, b, j, bhi) ==
    IF i < ahi /\ j < bhi /\ a[i + 1] = b[j + 1]
    THEN 1 + MatchLen(a, i + 1, ahi, b, j + 1, bhi)
    ELSE 0

\* SequenceMatcher.find_longest_match: the longest block, of those the one
\* that starts earliest in a, of those the one that starts earliest in b
find_longest_match(a, alo, ahi, b, blo, bhi) ==
    LET cands == {<<i, j, MatchLen(a, i, ahi, b, j, bhi)>> :
                      i \in alo..(ahi - 1), j \in blo..(bhi - 1)}
        found == {t \in cands : t[3] > 0}
    IN  IF found = {} THEN <<alo, blo, 0>>
        ELSE CHOOSE t \in found : \A u \in found :
                 \/ t[3] > u[3]
                 \/ t[3] = u[3] /\ t[1] < u[1]
                 \/ t[3] = u[3] /\ t[1] = u[1] /\ t[2] <= u[2]

\* SequenceMatcher.get_matching_blocks, without the closing (la, lb, 0): the
\* blocks left of the longest block m, m itself, the blocks right of it
RECURSIVE matching_blocks(_, _, _, _, _, _)
blocks_around(m, a, alo, ahi, b, blo, bhi) ==
    IF m[3] = 0 THEN <<>>
    ELSE matching_blocks(a, alo, m[1], b, blo, m[2])
         \o <<m>>
         \o matching_blocks(a, m[1] + m[3], ahi, b, m[2] + m[3], bhi)

matching_blocks(a, alo, ahi, b, blo, bhi) ==
    blocks_around(find_longest_match(a, alo, ahi, b, blo, bhi), a, alo, ahi, b, blo, bhi)

\* SequenceMatcher.get_opcodes: <<tag, i1, i2, j1, j2>>; one block (ai, bj, size)
\* yields the change before it and the equal run it is
opcodes_of_block(i, j, ai, bj, size) ==
    (IF i < ai /\ j < bj THEN << <<"replace", i, ai, j, bj>> >>
     ELSE IF i < ai THEN << <<"delete", i, ai, j, bj>> >>
     ELSE IF j < bj THEN << <<"insert", i, ai, j, bj>> >>
     ELSE <<>>)
    \o (IF size > 0 THEN << <<"equal", ai, ai + size, bj, bj + size>> >> ELSE <<>>)

RECURSIVE opcodes_from(_, _, _)
opcodes_from(blocks, i, j) ==
    IF blocks = <<>> THEN <<>>
    ELSE opcodes_of_block(i, j, blocks[1][1], blocks[1][2], blocks[1][3])
         \o opcodes_from(Tail(blocks), blocks[1][1] + blocks[1][3],
                         blocks[1][2] + blocks[1][3])

get_opcodes(a, b) ==
    opcodes_from(matching_blocks(a, 0, Len(a), b, 0, Len(b)) \o << <<Len(a), Len(b), 0>> >>,
                 0, 0)

\* SequenceMatcher.get_grouped_opcodes(n) for texts short enough to have one
\* group (no run of more than 2n equal lines between two changes): the
\* context before the first and after the last change is cut to n lines
cut_first(c, n) ==
    IF c[1] = "equal"
    THEN <<"equal", Max2(c[2], c[3] - n), c[3], Max2(c[4], c[5] - n), c[5]>>
    ELSE c

cut_last(c, n) ==
    IF c[1] = "equal"
    THEN <<"equal", c[2], Min2(c[3], c[2] + n), c[4], Min2(c[5], c[4] + n)>>
    ELSE c

cut_context(codes, n) ==
    IF codes = <<>> THEN codes
    ELSE [i \in 1..Len(codes) |->
            IF i = 1 /\ i = Len(codes) THEN cut_last(cut_first(codes[i], n), n)
            ELSE IF i = 1 THEN cut_first(codes[i], n)
            ELSE IF i = Len(codes) THEN cut_last(codes[i], n)
            ELSE codes[i]]

\* a group of nothing but equal lines is no group
groups_of(group) ==
    IF group = <<>> \/ (Len(group) = 1 /\ group[1][1] = "equal") THEN <<>>
    ELSE <<group>>

grouped_opcodes(a, b, n) == groups_of(cut_context(get_opcodes(a, b), n))

\* difflib._format_range_unified
_format_range_unified(start, stop) ==
    IF stop - start = 1 THEN ToString(start + 1)
    ELSE IF stop - start = 0 THEN ToString(start) \o "," \o ToString(stop - start)
    ELSE ToString(start + 1) \o "," \o ToString(stop - start)

\* the lines of one opcode, each behind its marker
RECURSIVE marked(_, _, _, _)
marked(mark, lines, lo, hi) ==
    IF lo >= hi THEN <<>>
    ELSE <<mark>> \o lines[lo + 1] \o marked(mark, lines, lo + 1, hi)

opcode_lines(c, a, b) ==
    IF c[1] = "equal" THEN marked(" ", a, c[2], c[3])
    ELSE (IF c[1] \in {"replace", "delete"} THEN marked("-", a, c[2], c[3]) ELSE <<>>)
         \o (IF c[1] \in {"replace", "insert"} THEN marked("+", b, c[4], c[5]) ELSE <<>>)

RECURSIVE hunk_lines(_, _, _)
hunk_lines(group, a, b) ==
    IF group = <<>> THEN <<>>
    ELSE opcode_lines(Head(group), a, b) \o hunk_lines(Tail(group), a, b)

\* the two file headers, the hunk header and the hunk; lineterm="" ends none of
\* the headers, the lines of the hunk keep their own ends
format_groups(groups, a, b, fromfile, tofile) ==
    IF groups = <<>> THEN <<>>
    ELSE <<"--- " \o fromfile, "+++ " \o tofile,
           "@@ -" \o _format_range_unified(groups[1][1][2], groups[1][Len(groups[1])][3])
              \o " +" \o _format_range_unified(groups[1][1][4], groups[1][Len(groups[1])][5])
              \o " @@">>
         \o hunk_lines(groups[1], a, b)

\* "".join(difflib.unified_diff(a, b, fromfile, tofile, lineterm=""))
unified_diff(a, b, fromfile, tofile) ==
    format_groups(grouped_opcodes(a, b, DiffContext), a, b, fromfile, tofile)

\* FixApplicator._generate_diff
_generate_diff(original, fixed, filename) ==
    unified_diff(splitlines(original), splitlines(fixed),
                 "a/" \o filename, "b/" \o filename)

\* f"{file_path}{self.backup_suffix}"
backup_suffix == ".backup"
backup_path_of(file_path) == file_path \o backup_suffix

\* the validation's verdict is ignored
rejected_never(validation) == FALSE

\* `if not validation["valid"]`: the candidate is refused
rejected(validation) == ~validation.valid

\* the dry_run flag is ignored
writes_to_disk_always(dry_run) == TRUE

\* no call goes on to the filesystem
writes_to_disk_never(dry_run) == FALSE

\* `if not dry_run`: the call goes on to the filesystem
writes_to_disk(dry_run) == ~dry_run

\* `if self.create_backup`: the first filesystem step of a real run
first_io_step(create) == IF create THEN "backup" ELSE "write"

\* a failed backup copy is swallowed
after_backup_swallowed(outcome) == "write"

\* shutil.copy2 returned, or raised into `except Exception`
after_backup(outcome) == IF outcome = "ok" THEN "write" ELSE "except"

\* the Fix is put at the front of the history
history_after_write_front(applied, fix) == <<fix>> \o applied

\* self.applied_fixes.append(fix)
history_after_write(applied, fix) == Append(applied, fix)

\* the loop stops at the first failed Fix
batch_stops_at_failure(fixes, results) ==
    /\ Len(results) < Len(fixes)
    /\ (IF results = <<>> THEN TRUE ELSE results[Len(results)].success)

\* `for fix in fixes`: another Fix is left to apply
batch_continues(fixes, results) == Len(results) < Len(fixes)

\* the paths restore_backups takes from the history when it is given None
default_restore_paths(applied) ==
    LET all == [i \in 1..Len(applied) |-> applied[i].issue.file]
    IN  SelectSeq(all, LAMBDA fp : fp # "")

\* the backup is moved, not copied, over the file
restore_move(f, file_path, backup_path) ==
    [q \in (DOMAIN f \cup {file_path}) \ {backup_path} |->
        IF q = file_path THEN f[backup_path] ELSE f[q]]

\* shutil.copy2(backup_path, file_path) on the filesystem f
restore_copy(f, file_path, backup_path) ==
    [q \in DOMAIN f \cup {file_path} |-> IF q = file_path THEN f[backup_path] ELSE f[q]]

\* shutil.copy2(file_path, backup_path) on the filesystem f
backup_copy(f, file_path, backup_path) ==
    [q \in DOMAIN f \cup {backup_path} |-> IF q = backup_path THEN f[file_path] ELSE f[q]]

\* the loop stops at the first path it could not restore
restore_stops_at_failure(file_paths, results) ==
    /\ Len(results) < Len(file_paths)
    /\ (IF results = <<>> THEN TRUE ELSE results[Len(results)].success)

\* `for file_path in file_paths`: another path is left to restore
restore_continues(file_paths, results) == Len(results) < Len(file_paths)

\* ------------------------------------------------ ast: the trees ast.parse returns
\* A node is a record with its class name in `type` and the fields of that
\* class; a list of nodes is a sequence, an optional node is <<>> or <<node>>.
\* A Constant holds its Python type in `kind` (int, bool, str or None; floats are
\* left out) and in `value` the number of an int or a bool, the length of a str.
\* An identifier is the sequence of its characters.

\* ast.iter_child_nodes(node): the child nodes, in the order of node._fields
iter_child_nodes(node) ==
    CASE node.type = "Module"        -> node.body
      [] node.type = "FunctionDef"   -> <<node.args>> \o node.body
      [] node.type = "AsyncFunctionDef" -> <<node.args>> \o node.body
      [] node.type = "arguments"     -> node.posonlyargs \o node.args \o node.vararg
                                        \o node.kwonlyargs \o node.kw_defaults
                                        \o node.kwarg \o node.defaults
      [] node.type = "ClassDef"      -> node.body
      [] node.type = "Return"        -> node.value
      [] node.type = "Assign"        -> node.targets \o <<node.value>>
      [] node.type = "Expr"          -> <<node.value>>
      [] node.type = "If"            -> <<node.test>> \o node.body \o node.orelse
      [] node.type = "While"         -> <<node.test>> \o node.body \o node.orelse
      [] node.type = "For"           -> <<node.target, node.iter>> \o node.body \o node.orelse
      [] node.type = "With"          -> node.items \o node.body
      [] node.type = "Try"           -> node.body \o node.handlers
      [] node.type = "ExceptHandler" -> node.type_ \o node.body
      [] node.type = "Assert"        -> <<node.test>>
      [] node.type = "Compare"       -> <<node.left>> \o node.comparators
      [] node.type = "Call"          -> <<node.func>> \o node.args
      [] node.type = "UnaryOp"       -> <<node.operand>>
      [] node.type = "Attribute"     -> <<node.value>>
      [] node.type = "List"          -> node.elts
      [] node.type = "Set"           -> node.elts
      [] node.type = "Dict"          -> node.keys \o node.values
      [] OTHER                       -> <<>>

\* the nodes of a tree in the order ast.NodeVisitor.visit reaches them when every
\* visit_X ends in generic_visit
RECURSIVE preorder(_)
RECURSIVE preorder_all(_)
preorder(node) == <<node>> \o preorder_all(iter_child_nodes(node))

preorder_all(nodes) ==
    IF nodes = <<>> THEN <<>>
    ELSE preorder(Head(nodes)) \o preorder_all(Tail(nodes))

\* the concatenation of a sequence of sequences
RECURSIVE concat(_)
concat(seqs) == IF seqs = <<>> THEN <<>> ELSE Head(seqs) \o concat(Tail(seqs))

\* isinstance(node, ast.Constant) and node.value is None
is_none_constant(node) == node.type = "Constant" /\ node.kind = "None"

\* ------------------------------------------------ ast.parse
\* What ast.parse makes of a file's content: the tree, a SyntaxError, or another
\* exception (RecursionError, MemoryError) for a text the parser gives up on.
Parsed(body) == [outcome |-> "tree", tree |-> [type |-> "Module", body |-> body]]
SyntaxErrorAt(lineno) == [outcome |-> "SyntaxError", lineno |-> lineno]
ParserGaveUp == [outcome |-> "RecursionError"]

\* ------------------------------------------------ scanner/detectors/pattern_detector.py
\* the dictionary every detector appends (the message text is left out)
issue_of(file_path, node, type, severity) ==
    [file |-> file_path, line |-> node.lineno, type |-> type, severity |-> severity]

\* PatternDetector.visit_Compare without its generic_visit: one Issue for every
\* (op, comparator) of zip(node.ops, node.comparators) with comparator None and
\* op == or !=
compare_issues(file_path, node) ==
    concat([i \in 1..Len(node.ops) |->
              IF is_none_constant(node.comparators[i]) /\ node.ops[i] \in {"Eq", "NotEq"}
              THEN <<issue_of(file_path, node, "none_comparison", "warning")>>
              ELSE <<>>])

\* PatternDetector.visit_FunctionDef without its generic_visit
mutable_default_issues(file_path, node) ==
    concat([i \in 1..Len(node.args.defaults) |->
              IF node.args.defaults[i].type \in {"List", "Dict", "Set"}
              THEN <<issue_of(file_path, node, "mutable_default_argument", "warning")>>
              ELSE <<>>])

\* PatternDetector.visit_Import and visit_ImportFrom without their generic_visit
wildcard_issues(file_path, node) ==
    concat([i \in 1..Len(node.names) |->
              IF node.names[i] = <<"*">>
              THEN <<issue_of(file_path, node, "wildcard_import", "info")>>
              ELSE <<>>])

\* what PatternDetector appends when visit reaches one node
pattern_visit(file_path, node) ==
    CASE node.type = "Compare"       -> compare_issues(file_path, node)
      [] node.type = "ExceptHandler" ->
            IF node.type_ = <<>>
            THEN <<issue_of(file_path, node, "bare_except", "warning")>>
            ELSE <<>>
      [] node.type = "FunctionDef"   -> mutable_default_issues(file_path, node)
      [] node.type = "Import"        -> wildcard_issues(file_path, node)
      [] node.type = "ImportFrom"    -> wildcard_issues(file_path, node)
      [] OTHER                       -> <<>>

\* detect_patterns(file_path, content), content given as what ast.parse makes of
\* it: the Issues, or "raise" when ast.parse raises anything but SyntaxError
detect_patterns(file_path, parsed) ==
    IF parsed.outcome = "tree"
    THEN LET nodes == preorder(parsed.tree)
         IN  Some(concat([i \in 1..Len(nodes) |-> pattern_visit(file_path, nodes[i])]))
    ELSE IF parsed.outcome = "SyntaxError" THEN Some(<<>>)
    ELSE None

\* ------------------------------------------------ scanner/detectors/security_detector.py
\* isinstance(func, ast.Name) and func.id == name
is_name(func, id) == func.type = "Name" /\ func.id = id

\* what SecurityDetector appends when visit reaches one node
security_visit(file_path, node) ==
    CASE node.type = "Call" ->
            (IF is_name(node.func, <<"e", "v", "a", "l">>)
             THEN <<issue_of(file_path, node, "dangerous_eval", "critical")>> ELSE <<>>)
            \o (IF is_name(node.func, <<"e", "x", "e", "c">>)
                THEN <<issue_of(file_path, node, "dangerous_exec", "critical")>> ELSE <<>>)
            \o (IF /\ node.func.type = "Attribute"
                   /\ is_name(node.func.value, <<"p", "i", "c", "k", "l", "e">>)
                   /\ node.func.attr = <<"l", "o", "a", "d", "s">>
                THEN <<issue_of(file_path, node, "unsafe_deserialization", "high")>>
                ELSE <<>>)
      [] node.type = "Import" ->
            concat([i \in 1..Len(node.names) |->
                      IF node.names[i] = <<"p", "i", "c", "k", "l", "e">>
                      THEN <<issue_of(file_path, node, "insecure_module", "info")>>
                      ELSE <<>>])
      [] OTHER -> <<>>

\* detect_security_issues(file_path, content)
detect_security_issues(file_path, parsed) ==
    IF parsed.outcome = "tree"
    THEN LET nodes == preorder(parsed.tree)
         IN  Some(concat([i \in 1..Len(nodes) |-> security_visit(file_path, nodes[i])]))
    ELSE IF parsed.outcome = "SyntaxError" THEN Some(<<>>)
    ELSE None

\* ------------------------------------------------ scanner/detectors/quality_detector.py
\* The detector's state while it walks a tree: the Issues so far, the name of the
\* function it is in (<<>> for None) and the complexity counted for it.
QualityDetector ==
    [issues |-> <<>>, current_function |-> <<>>, complexity_count |-> 0]

append_issue(st, issue) == [st EXCEPT !.issues = Append(@, issue)]

\* len(node.args.args) + len(node.args.posonlyargs) + len(node.args.kwonlyargs)
total_args(args) == Len(args.args) + Len(args.posonlyargs) + Len(args.kwonlyargs)

\* ast.get_docstring(node) is a non-empty string
has_docstring(node) ==
    /\ node.body # <<>>
    /\ node.body[1].type = "Expr"
    /\ node.body[1].value.type = "Constant"
    /\ node.body[1].value.kind = "str"
    /\ node.body[1].value.value > 0

\* name.startswith("_")
startswith_underscore(name) == name # <<>> /\ name[1] = "_"

\* the numbers visit_Constant lets pass
whitelist == {0, 1, -1, 2, 10, 100, 1000}

\* getattr(node, "parent", None): the class of the recorded parent.  ast.parse
\* records no parent on a node and the detector records none either.
getattr_parent(node) == IF "parent" \in DOMAIN node THEN node.parent ELSE "None"

\* QualityDetector.visit_Constant without its generic_visit
visit_Constant(file_path, node, st) ==
    IF /\ node.kind \in {"int", "bool"}
       /\ node.value \notin whitelist
       /\ getattr_parent(node) # "Assign"
    THEN append_issue(st, issue_of(file_path, node, "magic_number", "info"))
    ELSE st

\* the head of QualityDetector.visit_FunctionDef: the new context, the argument
\* count and the docstring
enter_function(file_path, node, st) ==
    LET ctx == [st EXCEPT !.current_function = node.name, !.complexity_count = 1]
        counted == IF total_args(node.args) > 7
                   THEN <<issue_of(file_path, node, "too_many_arguments", "info")>>
                   ELSE <<>>
        doc == IF ~has_docstring(node) /\ ~startswith_underscore(node.name)
               THEN <<issue_of(file_path, node, "missing_docstring", "info")>>
               ELSE <<>>
    IN  [ctx EXCEPT !.issues = @ \o counted \o doc]

\* the tail of QualityDetector.visit_FunctionDef: the complexity check, and the
\* context of the caller restored
leave_function(file_path, node, before, st) ==
    [issues |-> IF st.complexity_count > 10
                THEN Append(st.issues, issue_of(file_path, node, "high_complexity", "warning"))
                ELSE st.issues,
     current_function |-> before.current_function,
     complexity_count |-> before.complexity_count]

\* visit_If, visit_For, visit_While, visit_ExceptHandler, visit_With without their
\* generic_visit
count_branch(st) ==
    IF st.current_function # <<>>
    THEN [st EXCEPT !.complexity_count = @ + 1]
    ELSE st

\* len([item for item in node.body if isinstance(item, ast.FunctionDef)])
method_count(node) == Len(SelectSeq(node.body, LAMBDA item : item.type = "FunctionDef"))

\* QualityDetector.visit_ClassDef without its generic_visit
visit_ClassDef(file_path, node, st) ==
    LET doc == IF ~has_docstring(node) /\ ~startswith_underscore(node.name)
               THEN <<issue_of(file_path, node, "missing_docstring", "info")>>
               ELSE <<>>
        many == IF method_count(node) > 20
                THEN <<issue_of(file_path, node, "too_many_methods", "warning")>>
                ELSE <<>>
    IN  [st EXCEPT !.issues = @ \o doc \o many]

\* QualityDetector.visit(node) and generic_visit over a list of children
RECURSIVE quality_visit(_, _, _)
RECURSIVE quality_visit_all(_, _, _)
quality_visit(file_path, node, st) ==
    CASE node.type = "FunctionDef" ->
            leave_function(file_path, node, st,
                quality_visit_all(file_path, iter_child_nodes(node),
                                  enter_function(file_path, node, st)))
      [] node.type \in {"If", "For", "While", "ExceptHandler", "With"} ->
            quality_visit_all(file_path, iter_child_nodes(node), count_branch(st))
      [] node.type = "Assert" ->
            quality_visit_all(file_path, iter_child_nodes(node),
                append_issue(st, issue_of(file_path, node, "assert_statement", "info")))
      [] node.type = "ClassDef" ->
            quality_visit_all(file_path, iter_child_nodes(node),
                              visit_ClassDef(file_path, node, st))
      [] node.type = "Constant" -> visit_Constant(file_path, node, st)
      [] OTHER -> quality_visit_all(file_path, iter_child_nodes(node), st)

\* (the test of the counter, which is never negative, has TLC compute the state a
\* node leaves before the next node is visited)
quality_visit_all(file_path, nodes, st) ==
    IF nodes = <<>> \/ st.complexity_count < 0 THEN st
    ELSE quality_visit_all(file_path, Tail(nodes), quality_visit(file_path, Head(nodes), st))

\* detect_quality_issues(file_path, content)
detect_quality_issues(file_path, parsed) ==
    IF parsed.outcome = "tree"
    THEN Some(quality_visit(file_path, parsed.tree, QualityDetector).issues)
    ELSE IF parsed.outcome = "SyntaxError" THEN Some(<<>>)
    ELSE None

\* ------------------------------------------------------------ the inputs
Paths == {"a.py", "b.py", "gone.py"}

\* x == None / eval(s)
ContentA == <<"x", " ", "==", " ", "None", NL, "eval", "(", "s", ")", NL>>
\* from m import * / try: pass / except: pass   (no line break at the end)
ContentB == <<"from", " ", "m", " ", "import", " ", "*", NL,
              "try", ":", " ", "pass", NL, "except", ":", " ", "pass">>

IssueNone == [file |-> "a.py", line |-> 1, type |-> "none_comparison"]
IssueEval == [file |-> "a.py", line |-> 2, type |-> "dangerous_eval"]
IssueWild == [file |-> "b.py", line |-> 1, type |-> "wildcard_import"]
IssueBare == [file |-> "b.py", line |-> 3, type |-> "bare_except"]
IssueGone == [file |-> "gone.py", line |-> 1, type |-> "none_comparison"]
Issues == {IssueNone, IssueEval, IssueWild, IssueBare, IssueGone}

\* what the deterministic generator makes of the issues
GeneratedFixes == {generate_fix(i)[1] : i \in {j \in Issues : generate_fix(j) # None}}

\* what the AI collaborator may hand over: a one-line replacement, one with an
\* unmatched bracket, and an explicit change list
AIFixes ==
    { _parse_ai_response(IssueEval, <<"lit", "(", "s", ")">>, <<>>),
      _parse_ai_response(IssueEval, <<"lit", "(", "s">>, <<>>),
      _parse_ai_response(IssueBare, <<>>,
          << [line_number |-> 2, new_code |-> <<"try", ":", " ", "x">>] >>) }

Fixes == GeneratedFixes \cup AIFixes

RECURSIVE SeqsUpTo(_, _)
SeqsUpTo(S, n) ==
    IF n = 0 THEN {<<>>}
    ELSE LET shorter == SeqsUpTo(S, n - 1)
         IN  shorter \cup {Append(q, x) : q \in shorter, x \in S}

\* ------------------------------------------------------------ the state
VARIABLES
    fs,             \* the files on disk: path -> content
    create_backup,  \* FixApplicator.create_backup
    applied_fixes,  \* FixApplicator.applied_fixes
    pc,             \* where the call in flight stands
    cur,            \* locals of the apply_fix in flight
    batch,          \* locals of the apply_fixes_batch in flight
    rest,           \* locals of the restore_backups in flight
    result,         \* what the last apply_fix returned
    applies,        \* apply_fix calls that have returned
    entry,          \* history variable: the arguments of the apply_fix or restore_backups
                    \* in flight, with the disk and the history as it found them
    replaced,       \* history variable: the file the last apply_fix overwrote (with
                    \* backups enabled) and the content it replaced, until the
                    \* next apply_fix begins
    root,           \* the files under CodeScanner.root_path, in the order rglob finds them
    results,        \* CodeScanner.results, the list scan_directory extends and returns
    scan,           \* locals of the scan_directory in flight
    all_issues,     \* BugFixingAssistant.all_issues
    ai_fixer,       \* BugFixingAssistant.ai_fixer
    gen,            \* locals of the generate_fixes in flight
    all_fixes,      \* BugFixingAssistant.all_fixes
    content,        \* the file content handed to a detector, as ast.parse reads it
    detected,       \* what the detector returned for it
    validated       \* a call of FixValidator: its arguments and what it returned

applicator_vars == <<fs, create_backup, applied_fixes, pc, cur, batch, rest, result,
                     applies, entry, replaced>>
scanner_vars == <<root, results, scan, all_issues>>
generator_vars == <<ai_fixer, gen, all_fixes>>
detector_vars == <<content, detected, validated>>

vars == <<applicator_vars, scanner_vars, generator_vars, detector_vars>>

\* the parts of the assistant a specification leaves at rest
ScannerIdle == root = <<>> /\ results = <<>> /\ scan = None /\ all_issues = <<>>
GeneratorIdle == ai_fixer = None /\ gen = None /\ all_fixes = <<>>
DetectorIdle == content = None /\ detected = None /\ validated = None
ApplicatorIdle ==
    /\ fs = <<>>
    /\ create_backup = TRUE
    /\ applied_fixes = <<>>
    /\ pc = "idle"
    /\ cur = None
    /\ batch = None
    /\ rest = None
    /\ result = None
    /\ applies = 0
    /\ entry = None
    /\ replaced = None

Init ==
    /\ fs = [p \in {"a.py", "b.py"} |-> IF p = "a.py" THEN ContentA ELSE ContentB]
    /\ create_backup \in BOOLEAN
    /\ applied_fixes = <<>>
    /\ pc = "idle"
    /\ cur = None
    /\ batch = None
    /\ rest = None
    /\ result = None
    /\ applies = 0
    /\ entry = None
    /\ replaced = None
    /\ ScannerIdle /\ GeneratorIdle /\ DetectorIdle

\* apply_fix returns r: to its caller, or into the batch loop that called it
Return(r) ==
    /\ result' = Some(r)
    /\ cur' = None
    /\ applies' = applies + 1
    /\ IF batch = None
       THEN pc' = "return" /\ batch' = batch
       ELSE /\ pc' = "batch"
            /\ batch' = Some([batch[1] EXCEPT !.results = Append(@, r)])

\* the `except Exception as e` of apply_fix
Raised(fix, e) ==
    [success |-> FALSE, message |-> <<"Error applying fix: ", e>>, fix |-> fix, error |-> e]

\* apply_fix up to the first filesystem step: the existence check, the read, the
\* candidate, its validation, and for a dry run the diff and the return
ApplyFixBody(fix, dry_run) ==
    LET file_path == fix.issue.file
    IN  /\ entry' = Some([fs |-> fs, applied_fixes |-> applied_fixes,
                            fix |-> fix, dry_run |-> dry_run])
        /\ replaced' = None
        /\ UNCHANGED <<fs, create_backup, applied_fixes, rest>>
        /\ UNCHANGED <<scanner_vars, generator_vars, detector_vars>>
        /\ IF file_path = "" \/ file_path \notin DOMAIN fs
           THEN Return([success |-> FALSE, message |-> <<"File not found: ", file_path>>,
                        fix |-> fix])
           ELSE \E read \in {"ok", "raise"} :
                  IF read = "raise" THEN Return(Raised(fix, "read"))
                  ELSE LET original_content == fs[file_path]
                           fixed_content == _apply_fix_to_content(fix, original_content)
                       IN  IF fixed_content = None
                           THEN Return([success |-> FALSE,
                                        message |-> <<"Could not apply fix to content">>,
                                        fix |-> fix])
                           ELSE LET validation == validate_syntax(fixed_content[1], "python")
                                IN  IF rejected(validation)
                                    THEN Return([success |-> FALSE,
                                                 message |-> <<"Fix introduces syntax errors: ",
                                                               validation.message>>,
                                                 fix |-> fix, validation |-> validation])
                                    ELSE IF writes_to_disk(dry_run)
                                    THEN /\ cur' = Some([fix |-> fix, dry_run |-> dry_run,
                                                         file_path |-> file_path,
                                                         original_content |-> original_content,
                                                         fixed_content |-> fixed_content[1]])
                                         /\ pc' = first_io_step(create_backup)
                                         /\ result' = None
                                         /\ UNCHANGED <<batch, applies>>
                                    ELSE Return([success |-> TRUE,
                                                 message |-> <<"Fix applied successfully">>,
                                                 fix |-> fix, file |-> file_path,
                                                 diff |-> _generate_diff(original_content,
                                                              fixed_content[1], file_path),
                                                 dry_run |-> dry_run])

\* FixApplicator.apply_fix(fix, dry_run), called directly
apply_fix(fix, dry_run) ==
    /\ pc = "idle"
    /\ applies < MaxApplies
    /\ ApplyFixBody(fix, dry_run)

\* shutil.copy2(file_path, backup_path)
Backup ==
    /\ pc = "backup"
    /\ \E outcome \in {"ok", "raise"} :
         /\ fs' = IF outcome = "ok"
                  THEN backup_copy(fs, cur[1].file_path, backup_path_of(cur[1].file_path))
                  ELSE fs
         /\ IF after_backup(outcome) = "write"
            THEN /\ pc' = "write"
                 /\ UNCHANGED <<cur, batch, result, applies>>
            ELSE Return(Raised(cur[1].fix, "copy2"))
    /\ UNCHANGED <<create_backup, applied_fixes, rest, entry, replaced>>
    /\ UNCHANGED <<scanner_vars, generator_vars, detector_vars>>

\* open(file_path, "w") and f.write(fixed_content), the append to the history,
\* the diff and the return
Write ==
    /\ pc = "write"
    /\ \E outcome \in {"ok", "raise"} :
         IF outcome = "ok"
         THEN /\ fs' = [fs EXCEPT ![cur[1].file_path] = cur[1].fixed_content]
              /\ applied_fixes' = history_after_write(applied_fixes, cur[1].fix)
              /\ replaced' = IF create_backup
                             THEN Some([file |-> cur[1].file_path,
                                        content |-> cur[1].original_content])
                             ELSE None
              /\ Return([success |-> TRUE, message |-> <<"Fix applied successfully">>,
                         fix |-> cur[1].fix, file |-> cur[1].file_path,
                         diff |-> _generate_diff(cur[1].original_content,
                                      cur[1].fixed_content, cur[1].file_path),
                         dry_run |-> cur[1].dry_run])
         ELSE /\ UNCHANGED <<fs, applied_fixes, replaced>>
              /\ Return(Raised(cur[1].fix, "write"))
    /\ UNCHANGED <<create_backup, rest, entry>>
    /\ UNCHANGED <<scanner_vars, generator_vars, detector_vars>>

\* FixApplicator.apply_fixes_batch(fixes, dry_run): results = []
apply_fixes_batch(fixes, dry_run) ==
    /\ pc = "idle"
    /\ applies + Len(fixes) <= MaxApplies
    /\ batch' = Some([fixes |-> fixes, dry_run |-> dry_run, results |-> <<>>])
    /\ pc' = "batch"
    /\ result' = None
    /\ entry' = None
    /\ UNCHANGED <<fs, create_backup, applied_fixes, cur, rest, applies, replaced>>
    /\ UNCHANGED <<scanner_vars, generator_vars, detector_vars>>

\* one turn of the loop of apply_fixes_batch
BatchLoop ==
    /\ pc = "batch"
    /\ batch_continues(batch[1].fixes, batch[1].results)
    /\ ApplyFixBody(batch[1].fixes[Len(batch[1].results) + 1], batch[1].dry_run)

\* `return results` of apply_fixes_batch
BatchReturn ==
    /\ pc = "batch"
    /\ ~batch_continues(batch[1].fixes, batch[1].results)
    /\ pc' = "return"
    /\ UNCHANGED <<fs, create_backup, applied_fixes, cur, batch, rest, result, applies,
                   entry, replaced>>
    /\ UNCHANGED <<scanner_vars, generator_vars, detector_vars>>

\* FixApplicator.restore_backups(file_paths): results = [], and the default paths
restore_backups(file_paths) ==
    /\ pc = "idle"
    /\ rest' = Some([arg |-> file_paths,
                     file_paths |-> IF file_paths = None
                                    THEN default_restore_paths(applied_fixes)
                                    ELSE file_paths[1],
                     results |-> <<>>])
    /\ pc' = "restore"
    /\ result' = None
    /\ entry' = Some([fs |-> fs, applied_fixes |-> applied_fixes])
    /\ UNCHANGED <<fs, create_backup, applied_fixes, cur, batch, applies, replaced>>
    /\ UNCHANGED <<scanner_vars, generator_vars, detector_vars>>

\* one turn of the loop of restore_backups
RestoreLoop ==
    /\ pc = "restore"
    /\ restore_continues(rest[1].file_paths, rest[1].results)
    /\ LET file_path == rest[1].file_paths[Len(rest[1].results) + 1]
           backup_path == backup_path_of(file_path)
           Add(r) == rest' = Some([rest[1] EXCEPT !.results = Append(@, r)])
       IN  IF backup_path \notin DOMAIN fs
           THEN /\ Add([success |-> FALSE, file |-> file_path,
                        message |-> <<"No backup found: ", backup_path>>])
                /\ fs' = fs
           ELSE \E outcome \in {"ok", "raise"} :
                  IF outcome = "ok"
                  THEN /\ fs' = restore_copy(fs, file_path, backup_path)
                       /\ Add([success |-> TRUE, file |-> file_path,
                               message |-> <<"File restored from backup">>])
                  ELSE /\ fs' = fs
                       /\ Add([success |-> FALSE, file |-> file_path,
                               message |-> <<"Error restoring backup: ", "copy2">>,
                               error |-> "copy2"])
    /\ UNCHANGED <<create_backup, applied_fixes, pc, cur, batch, result, applies,
                   entry, replaced>>
    /\ UNCHANGED <<scanner_vars, generator_vars, detector_vars>>

\* `return results` of restore_backups
RestoreReturn ==
    /\ pc = "restore"
    /\ ~restore_continues(rest[1].file_paths, rest[1].results)
    /\ pc' = "return"
    /\ UNCHANGED <<fs, create_backup, applied_fixes, cur, batch, rest, result, applies,
                   entry, replaced>>
    /\ UNCHANGED <<scanner_vars, generator_vars, detector_vars>>

\* the caller takes the returned value; the Applicator keeps only its history
ReturnToCaller ==
    /\ pc = "return"
    /\ pc' = "idle"
    /\ batch' = None
    /\ rest' = None
    /\ result' = None
    /\ entry' = None
    /\ UNCHANGED <<fs, create_backup, applied_fixes, cur, applies, replaced>>
    /\ UNCHANGED <<scanner_vars, generator_vars, detector_vars>>

Next ==
    \/ \E fix \in Fixes, dry_run \in BOOLEAN : apply_fix(fix, dry_run)
    \/ Backup
    \/ Write
    \/ \E fixes \in SeqsUpTo(Fixes, MaxBatch), dry_run \in BOOLEAN :
         apply_fixes_batch(fixes, dry_run)
    \/ BatchLoop
    \/ BatchReturn
    \/ \E file_paths \in {None} \cup {Some(q) : q \in SeqsUpTo(Paths, MaxRestore)} :
         restore_backups(file_paths)
    \/ RestoreLoop
    \/ RestoreReturn
    \/ ReturnToCaller

Spec == Init /\ [][Next]_vars

\* ------------------------------------------------------------ the claims
\* an apply_fix has just returned: `result` is what it returned, `entry` what it
\* was given and found, and nothing has run since
ApplyReturned == result # None /\ rest = None

\* the candidate apply_fix computes from the file it found, when it found and read it
CandidateAtEntry ==
    IF entry[1].fix.issue.file \in DOMAIN entry[1].fs
    THEN _apply_fix_to_content(entry[1].fix, entry[1].fs[entry[1].fix.issue.file])
    ELSE None

\* the apply_fix that returned got as far as validating a candidate, and the
\* candidate does not parse
CandidateRejected ==
    /\ ApplyReturned
    /\ "error" \notin DOMAIN result[1]
    /\ CandidateAtEntry # None
    /\ ~ast_parse_ok(CandidateAtEntry[1])

\* C1: an apply_fix whose candidate fails syntax validation returns success=false
\* with the validation detail, and leaves every file (the target, and so also any
\* backup file) and the applied-fix history as it found them.
ClaimC1 ==
    CandidateRejected =>
        /\ result[1].success = FALSE
        /\ "validation" \in DOMAIN result[1]
        /\ result[1].validation.valid = FALSE
        /\ result[1].message[2] = result[1].validation.message
        /\ fs = entry[1].fs
        /\ applied_fixes = entry[1].applied_fixes

\* a candidate with an unmatched bracket was rejected
WitnessC1 ==
    /\ CandidateRejected
    /\ ~Balanced(CandidateAtEntry[1], 0)
    /\ ~entry[1].dry_run

\* the apply_fix that returned left other content in its target than it found
Overwritten ==
    /\ ApplyReturned
    /\ entry[1].fix.issue.file \in DOMAIN entry[1].fs
    /\ fs[entry[1].fix.issue.file] # entry[1].fs[entry[1].fix.issue.file]

\* C2: with backups enabled, a real apply reaches the overwrite of the target only
\* with the backup copy of the unchanged target in place, a target that was
\* overwritten has its former content in the backup file, and when the backup copy
\* raises the apply fails with every file and the history as it found them.
ClaimC2 ==
    create_backup =>
        /\ pc = "write" =>
              /\ backup_path_of(cur[1].file_path) \in DOMAIN fs
              /\ fs[backup_path_of(cur[1].file_path)] = entry[1].fs[cur[1].file_path]
              /\ fs[cur[1].file_path] = entry[1].fs[cur[1].file_path]
        /\ Overwritten =>
              /\ backup_path_of(entry[1].fix.issue.file) \in DOMAIN fs
              /\ fs[backup_path_of(entry[1].fix.issue.file)]
                    = entry[1].fs[entry[1].fix.issue.file]
        /\ (ApplyReturned /\ "error" \in DOMAIN result[1] /\ result[1].error = "copy2") =>
              /\ result[1].success = FALSE
              /\ fs = entry[1].fs
              /\ applied_fixes = entry[1].applied_fixes

\* the target was overwritten with new content, behind its backup
WitnessC2 ==
    /\ create_backup
    /\ Overwritten
    /\ result[1].success

\* C3: a backup file, once there, keeps its content: no step of an apply (a later
\* apply to the same file included) or of anything else before a restore changes it.
ClaimC3 ==
    [][\A p \in Paths :
          (backup_path_of(p) \in DOMAIN fs /\ pc # "restore") =>
              /\ backup_path_of(p) \in DOMAIN fs'
              /\ fs'[backup_path_of(p)] = fs[backup_path_of(p)]]_vars

\* what one apply_fix does to the files it found, by its outcome
AppliedOnThenCurrentState ==
    IF entry[1].fix.issue.file \notin DOMAIN entry[1].fs
    THEN ~result[1].success /\ fs = entry[1].fs
    ELSE IF "error" \in DOMAIN result[1]
    THEN ~result[1].success
    ELSE IF CandidateAtEntry = None \/ ~ast_parse_ok(CandidateAtEntry[1])
    THEN ~result[1].success /\ fs = entry[1].fs
    ELSE /\ result[1].success
         /\ entry[1].dry_run => fs = entry[1].fs
         /\ ~entry[1].dry_run => fs[entry[1].fix.issue.file] = CandidateAtEntry[1]

\* C4: inside a batch every Fix is applied in turn on the files as the Fixes before
\* it left them, whatever happened to those, and its result is appended; the list
\* apply_fixes_batch returns has one result per Fix, the i-th for the i-th Fix.
ClaimC4 ==
    /\ (batch # None /\ ApplyReturned) =>
          /\ batch[1].results # <<>>
          /\ batch[1].results[Len(batch[1].results)] = result[1]
          /\ entry[1].fix = batch[1].fixes[Len(batch[1].results)]
          /\ entry[1].dry_run = batch[1].dry_run
          /\ AppliedOnThenCurrentState
    /\ (batch # None /\ pc = "return") =>
          /\ Len(batch[1].results) = Len(batch[1].fixes)
          /\ \A i \in 1..Len(batch[1].fixes) : batch[1].results[i].fix = batch[1].fixes[i]

\* a batch returned whose first Fix names a file that is not there and whose
\* second Fix was written
WitnessC4 ==
    /\ batch # None
    /\ pc = "return"
    /\ Len(batch[1].fixes) = 2
    /\ batch[1].results[1].success = FALSE
    /\ batch[1].results[1].message[1] = "File not found: "
    /\ batch[1].results[2].success
    /\ ~batch[1].dry_run

\* C5: an apply_fix that returns success=false leaves every file, the target and
\* the backup files, as it found them.
ClaimC5 ==
    (ApplyReturned /\ ~result[1].success) => fs = entry[1].fs

\* C6: a dry run leaves every file and the history as it found them, and when the
\* candidate validates it returns success=true, dry_run=true and the diff of the
\* file's content against the candidate.
ClaimC6 ==
    (ApplyReturned /\ entry[1].dry_run) =>
        /\ fs = entry[1].fs
        /\ applied_fixes = entry[1].applied_fixes
        /\ ("error" \notin DOMAIN result[1] /\ CandidateAtEntry # None
                /\ ast_parse_ok(CandidateAtEntry[1])) =>
              /\ result[1].success
              /\ "diff" \in DOMAIN result[1]
              /\ result[1].diff = unified_diff(
                     splitlines(entry[1].fs[entry[1].fix.issue.file]),
                     splitlines(CandidateAtEntry[1]),
                     "a/" \o entry[1].fix.issue.file, "b/" \o entry[1].fix.issue.file)
              /\ result[1].dry_run = TRUE

\* a dry run inside a batch succeeded with a diff that shows a change
WitnessC6 ==
    /\ ApplyReturned
    /\ batch # None
    /\ entry[1].dry_run
    /\ result[1].success
    /\ result[1].diff # <<>>

\* C7: every Fix the Applicator has written to disk has automated = true.
ClaimC7 ==
    \A i \in 1..Len(applied_fixes) : applied_fixes[i].automated

\* a restore_backups that follows a successful real apply (backups enabled), with
\* no other apply in between, has restored the file that apply overwrote
RestoredAfterApply(i) ==
    /\ rest # None
    /\ replaced # None
    /\ i \in 1..Len(rest[1].results)
    /\ rest[1].results[i].file = replaced[1].file
    /\ rest[1].results[i].success

\* C8: with backups enabled, once a restore_backups that follows a successful real
\* apply has restored the file that apply overwrote, the file holds the content
\* the apply replaced, and the backup file is still there with that same content.
ClaimC8 ==
    \A i \in 1..(IF rest = None THEN 0 ELSE Len(rest[1].results)) :
        RestoredAfterApply(i) =>
            /\ fs[replaced[1].file] = replaced[1].content
            /\ backup_path_of(replaced[1].file) \in DOMAIN fs
            /\ fs[backup_path_of(replaced[1].file)] = replaced[1].content

\* the restore undid a change: the history's last Fix would change the file again
WitnessC8 ==
    /\ pc = "return"
    /\ RestoredAfterApply(1)
    /\ _apply_fix_to_content(applied_fixes[Len(applied_fixes)], fs[replaced[1].file])
          # Some(fs[replaced[1].file])

\* C9: the history grows by exactly the Fix of each apply_fix that returns
\* success=true with dry_run=false, at its end; a failed apply, a dry run, an apply
\* still in flight and a restore leave it as they found it.
ClaimC9 ==
    entry # None =>
        applied_fixes =
            IF ApplyReturned /\ result[1].success /\ ~entry[1].dry_run
            THEN Append(entry[1].applied_fixes, entry[1].fix)
            ELSE entry[1].applied_fixes

\* a second, different Fix has just joined the history
WitnessC9 ==
    /\ ApplyReturned
    /\ result[1].success
    /\ ~entry[1].dry_run
    /\ Len(applied_fixes) = 2
    /\ applied_fixes[1] # applied_fixes[2]

\* the paths a restore_backups was asked for
Requested ==
    IF rest[1].arg = None
    THEN [i \in 1..Len(entry[1].applied_fixes) |-> entry[1].applied_fixes[i].issue.file]
    ELSE rest[1].arg[1]

MaxStmts == 2

\* ------------------------------------------------------------ the trees handed over
Name(id, lineno) == [type |-> "Name", id |-> id, lineno |-> lineno]
Constant(kind, value, lineno) ==
    [type |-> "Constant", kind |-> kind, value |-> value, lineno |-> lineno]
NoneConstant(lineno) == Constant("None", 0, lineno)
Compare(left, ops, comparators, lineno) ==
    [type |-> "Compare", left |-> left, ops |-> ops, comparators |-> comparators,
     lineno |-> lineno]
Call(func, args, lineno) == [type |-> "Call", func |-> func, args |-> args, lineno |-> lineno]
Expr(value, lineno) == [type |-> "Expr", value |-> value, lineno |-> lineno]
Assign(target, value, lineno) ==
    [type |-> "Assign", targets |-> <<target>>, value |-> value, lineno |-> lineno]
UnaryOp(op, operand, lineno) ==
    [type |-> "UnaryOp", op |-> op, operand |-> operand, lineno |-> lineno]
Pass(lineno) == [type |-> "Pass", lineno |-> lineno]

\* n parameters of one kind
arg_list(n) == [i \in 1..n |-> [type |-> "arg", arg |-> <<"p">>]]

\* def name(<posonly>, /, <plain>, *a, <kwonly>, **k): pass, with the parameters
\* of each kind counted by n
FunctionDef(name, n, lineno) ==
    [type |-> "FunctionDef", name |-> name, lineno |-> lineno,
     args |-> [type |-> "arguments",
               posonlyargs |-> arg_list(n.posonly), args |-> arg_list(n.plain),
               vararg |-> arg_list(n.vararg), kwonlyargs |-> arg_list(n.kwonly),
               kw_defaults |-> <<>>, kwarg |-> arg_list(n.kwarg), defaults |-> <<>>],
     body |-> <<Pass(lineno)>>]

X(lineno) == Name(<<"x">>, lineno)
Y(lineno) == Name(<<"y">>, lineno)

\* comparisons as statements: x == None, x != None, None == x, None != x,
\* x is None, x is not None, x == y, x == y != None, None == x == y, x < None
CompareStmts(l) ==
    { Expr(Compare(X(l), <<"Eq">>, <<NoneConstant(l)>>, l), l),
      Expr(Compare(X(l), <<"NotEq">>, <<NoneConstant(l)>>, l), l),
      Expr(Compare(NoneConstant(l), <<"Eq">>, <<X(l)>>, l), l),
      Expr(Compare(NoneConstant(l), <<"NotEq">>, <<X(l)>>, l), l),
      Expr(Compare(X(l), <<"Is">>, <<NoneConstant(l)>>, l), l),
      Expr(Compare(X(l), <<"IsNot">>, <<NoneConstant(l)>>, l), l),
      Expr(Compare(X(l), <<"Eq">>, <<Y(l)>>, l), l),
      Expr(Compare(X(l), <<"Eq", "NotEq">>, <<Y(l), NoneConstant(l)>>, l), l),
      Expr(Compare(NoneConstant(l), <<"Eq", "Eq">>, <<X(l), Y(l)>>, l), l),
      Expr(Compare(X(l), <<"Lt">>, <<NoneConstant(l)>>, l), l) }

\* the parameter lists: 7 plain; 8 plain; 7 plain and *a; 6 plain, *a and **k;
\* 2 positional-only, 3 plain and 3 keyword-only; 5 plain, 2 keyword-only and **k;
\* none
ParameterCounts ==
    { [posonly |-> 0, plain |-> 7, vararg |-> 0, kwonly |-> 0, kwarg |-> 0],
      [posonly |-> 0, plain |-> 8, vararg |-> 0, kwonly |-> 0, kwarg |-> 0],
      [posonly |-> 0, plain |-> 7, vararg |-> 1, kwonly |-> 0, kwarg |-> 0],
      [posonly |-> 0, plain |-> 6, vararg |-> 1, kwonly |-> 0, kwarg |-> 1],
      [posonly |-> 2, plain |-> 3, vararg |-> 0, kwonly |-> 3, kwarg |-> 0],
      [posonly |-> 0, plain |-> 5, vararg |-> 0, kwonly |-> 2, kwarg |-> 1],
      [posonly |-> 0, plain |-> 0, vararg |-> 0, kwonly |-> 0, kwarg |-> 0] }

FunctionStmts(l) ==
    {FunctionDef(<<"_", "f">>, n, l) : n \in ParameterCounts}
    \cup {FunctionDef(<<"f">>, [posonly |-> 0, plain |-> 8, vararg |-> 0,
                               kwonly |-> 0, kwarg |-> 0], l)}

\* the numbers written in the statements below
Literals == {0, 1, 2, 10, 42, 100, 1000, 1001}

\* x = n, f(n), x = f(n), x = -n, and x = True
LiteralStmts(l) ==
    {Assign(X(l), Constant("int", n, l), l) : n \in {10, 42}}
    \cup {Expr(Call(Name(<<"f">>, l), <<Constant("int", n, l)>>, l), l) : n \in Literals}
    \cup {Assign(X(l), Call(Name(<<"f">>, l), <<Constant("int", n, l)>>, l), l) : n \in {42}}
    \cup {Assign(X(l), UnaryOp("USub", Constant("int", n, l), l), l) : n \in {1, 5}}
    \cup {Assign(X(l), Constant("bool", 1, l), l)}

\* eval(x) and exec(x)
CallStmts(l) ==
    {Expr(Call(Name(id, l), <<X(l)>>, l), l) : id \in {<<"e", "v", "a", "l">>,
                                                      <<"e", "x", "e", "c">>}}

\* literals: [], {}, {1}
List(lineno) == [type |-> "List", elts |-> <<>>, lineno |-> lineno]
Dict(lineno) == [type |-> "Dict", keys |-> <<>>, values |-> <<>>, lineno |-> lineno]
Set(lineno) == [type |-> "Set", elts |-> <<Constant("int", 1, lineno)>>, lineno |-> lineno]

\* def or async def name(<one parameter per default>, *, <one keyword-only
\* parameter per default>): <body>
FunctionDefWith(kind, name, defaults, kw_defaults, body, lineno) ==
    [type |-> kind, name |-> name, lineno |-> lineno,
     args |-> [type |-> "arguments",
               posonlyargs |-> <<>>, args |-> arg_list(Len(defaults)),
               vararg |-> <<>>, kwonlyargs |-> arg_list(Len(kw_defaults)),
               kw_defaults |-> kw_defaults, kwarg |-> <<>>, defaults |-> defaults],
     body |-> body]

\* def _f(a=[]), def _f(a={}), def _f(a={1}), def _f(a=1), def _f(a=[], b={}),
\* def _f(*, a=[]), def _f(*, a=1), async def _f(a=[])
DefaultStmts(l) ==
    {FunctionDefWith("FunctionDef", <<"_", "f">>, d, <<>>, <<Pass(l)>>, l) :
        d \in {<<List(l)>>, <<Dict(l)>>, <<Set(l)>>, <<Constant("int", 1, l)>>,
               <<List(l), Dict(l)>>}}
    \cup {FunctionDefWith("FunctionDef", <<"_", "f">>, <<>>, d, <<Pass(l)>>, l) :
        d \in {<<List(l)>>, <<Constant("int", 1, l)>>}}
    \cup {FunctionDefWith("AsyncFunctionDef", <<"_", "f">>, <<List(l)>>, <<>>, <<Pass(l)>>, l)}

\* import <name> [as <asname>], ...: asnames has <<>> where there is no "as"
Import(names, asnames, lineno) ==
    [type |-> "Import", names |-> names, asnames |-> asnames, lineno |-> lineno]
Attribute(value, attr, lineno) ==
    [type |-> "Attribute", value |-> value, attr |-> attr, lineno |-> lineno]

pickle == <<"p", "i", "c", "k", "l", "e">>
json == <<"j", "s", "o", "n">>
loads == <<"l", "o", "a", "d", "s">>

\* import pickle, import pickle as p, import json as pickle, import json,
\* pickle = x
ImportStmts(l) ==
    { Import(<<pickle>>, <<<<>>>>, l),
      Import(<<pickle>>, <<<<"p">>>>, l),
      Import(<<json>>, <<pickle>>, l),
      Import(<<json>>, <<<<>>>>, l),
      Assign(Name(pickle, l), X(l), l) }

\* pickle.loads(x), p.loads(x), json.loads(x), pickle.load(x)
LoadsStmts(l) ==
    {Expr(Call(Attribute(Name(n, l), loads, l), <<X(l)>>, l), l) :
        n \in {pickle, <<"p">>, json}}
    \cup {Expr(Call(Attribute(Name(pickle, l), <<"l", "o", "a", "d">>, l), <<X(l)>>, l), l)}

If(body, lineno) ==
    [type |-> "If", test |-> X(lineno), body |-> body, orelse |-> <<>>, lineno |-> lineno]
For(body, lineno) ==
    [type |-> "For", target |-> X(lineno), iter |-> Y(lineno), body |-> body,
     orelse |-> <<>>, lineno |-> lineno]
While(body, lineno) ==
    [type |-> "While", test |-> X(lineno), body |-> body, orelse |-> <<>>, lineno |-> lineno]
With(body, lineno) == [type |-> "With", items |-> <<>>, body |-> body, lineno |-> lineno]
Try(body, handlers, lineno) ==
    [type |-> "Try", body |-> body, handlers |-> handlers, lineno |-> lineno]
ExceptHandler(body, lineno) ==
    [type |-> "ExceptHandler", type_ |-> <<Name(<<"E">>, lineno)>>, body |-> body,
     lineno |-> lineno]

\* n statements "if x: pass"
Ifs(n, lineno) == [i \in 1..n |-> If(<<Pass(lineno)>>, lineno)]

\* def or async def _f(): <body> at line l, def or async def _g(): <body> inside
\* it at line l + 10
Outer(kind, body, l) == FunctionDefWith(kind, <<"_", "f">>, <<>>, <<>>, body, l)
Inner(kind, body, l) == FunctionDefWith(kind, <<"_", "g">>, <<>>, <<>>, body, l + 10)

\* functions with branches: nested in one another; in a try with a handler and a
\* with; 9 and 10 ifs; a nested function with its own ifs between the ifs of the
\* outer one; 5 ifs around a nested function of 6; the same with async def
\* outside or inside; and an if outside any function
ComplexityStmts(l) ==
    { Outer("FunctionDef", <<If(<<For(<<While(<<Pass(l)>>, l)>>, l)>>, l)>>, l),
      Outer("FunctionDef",
            <<Try(<<With(<<Pass(l)>>, l)>>, <<ExceptHandler(<<Pass(l)>>, l)>>, l)>>, l),
      Outer("FunctionDef", Ifs(9, l), l),
      Outer("FunctionDef", Ifs(10, l), l),
      Outer("FunctionDef",
            Ifs(1, l) \o <<Inner("FunctionDef", Ifs(2, l), l)>> \o <<With(<<Pass(l)>>, l)>>, l),
      Outer("FunctionDef", Ifs(5, l) \o <<Inner("FunctionDef", Ifs(6, l), l)>>, l),
      Outer("FunctionDef", <<Inner("FunctionDef", Ifs(10, l), l)>>, l),
      Outer("FunctionDef", <<Inner("AsyncFunctionDef", Ifs(1, l), l)>>, l),
      Outer("AsyncFunctionDef", Ifs(10, l), l),
      If(<<Pass(l)>>, l) }

Stmts(l) ==
    CompareStmts(l) \cup FunctionStmts(l) \cup LiteralStmts(l) \cup CallStmts(l)
    \cup DefaultStmts(l) \cup ImportStmts(l) \cup LoadsStmts(l) \cup ComplexityStmts(l)

\* the modules of up to n statements, one statement to a line
RECURSIVE Bodies(_)
Bodies(n) ==
    IF n = 0 THEN {<<>>}
    ELSE LET shorter == Bodies(n - 1)
         IN  shorter \cup {Append(b, s) : b \in {c \in shorter : Len(c) = n - 1},
                                          s \in Stmts(n)}

\* what a detector may be handed: a module, a text with a syntax error, a text
\* the parser gives up on
Contents ==
    {Parsed(b) : b \in Bodies(MaxStmts)} \cup {SyntaxErrorAt(1), ParserGaveUp}

DetectorPath == "t.py"

\* ------------------------------------------------------------ the actions
InitDetect ==
    /\ content \in {Some(c) : c \in Contents}
    /\ detected = None
    /\ validated = None
    /\ ApplicatorIdle
    /\ ScannerIdle /\ GeneratorIdle

\* a detector returns `found` (None when it raised)
Detected(detector, found) ==
    /\ detected = None
    /\ detected' = Some([detector |-> detector, issues |-> found])
    /\ UNCHANGED <<content, validated, applicator_vars, scanner_vars, generator_vars>>

\* detect_patterns(file_path, content)
DetectPatterns == Detected("pattern", detect_patterns(DetectorPath, content[1]))

\* detect_security_issues(file_path, content)
DetectSecurity == Detected("security", detect_security_issues(DetectorPath, content[1]))

\* detect_quality_issues(file_path, content)
DetectQuality == Detected("quality", detect_quality_issues(DetectorPath, content[1]))

NextDetect ==
    \/ DetectPatterns
    \/ DetectSecurity
    \/ DetectQuality

SpecDetect == InitDetect /\ [][NextDetect]_vars

\* ------------------------------------------------------------ the claims
\* the detector returned Issues for a module
Returned(detector) ==
    /\ detected # None
    /\ detected[1].detector = detector
    /\ detected[1].issues # None
    /\ content[1].outcome = "tree"

\* the lines of the Issues of one type, in the order reported
RECURSIVE lines_of(_, _)
lines_of(found, type) ==
    IF found = <<>> THEN <<>>
    ELSE (IF Head(found).type = type THEN <<Head(found).line>> ELSE <<>>)
         \o lines_of(Tail(found), type)

\* how often a line occurs in a sequence of lines
count_line(lines, l) == Cardinality({i \in 1..Len(lines) : lines[i] = l})

\* the ==/!= comparisons of a Compare node that have None on either side
none_comparisons(node) ==
    LET operands == <<node.left>> \o node.comparators
    IN  {i \in 1..Len(node.ops) :
           /\ node.ops[i] \in {"Eq", "NotEq"}
           /\ (is_none_constant(operands[i]) \/ is_none_constant(operands[i + 1]))}

\* the line of every such comparison in a tree
none_comparison_lines(tree) ==
    LET nodes == preorder(tree)
    IN  concat([k \in 1..Len(nodes) |->
                  IF nodes[k].type = "Compare"
                  THEN [j \in 1..Cardinality(none_comparisons(nodes[k])) |-> nodes[k].lineno]
                  ELSE <<>>])

\* C20: the pattern detector reports none_comparison, severity warning, at the
\* line of a comparison, once for every ==/!= comparison that has the literal None
\* on its left or on its right, and for no other comparison.
ClaimC20 ==
    Returned("pattern") =>
        LET found == detected[1].issues[1]
        IN  /\ \A i \in 1..Len(found) :
                  found[i].type = "none_comparison" => found[i].severity = "warning"
            /\ \A l \in 1..MaxStmts :
                  count_line(lines_of(found, "none_comparison"), l)
                  = count_line(none_comparison_lines(content[1].tree), l)

\* all the formal parameters of a function, of every kind
all_parameters(args) ==
    Len(args.posonlyargs) + Len(args.args) + Len(args.kwonlyargs)
    + Len(args.vararg) + Len(args.kwarg)

\* C18: too_many_arguments is reported exactly once, at its definition line, for
\* every function definition with more than 7 formal parameters of all kinds
\* together, and never for a function with 7 or fewer.
ClaimC18 ==
    Returned("quality") =>
        LET nodes == preorder(content[1].tree)
            lines == lines_of(detected[1].issues[1], "too_many_arguments")
        IN  \A k \in 1..Len(nodes) :
               nodes[k].type = "FunctionDef" =>
                  count_line(lines, nodes[k].lineno)
                  = IF all_parameters(nodes[k].args) > 7 THEN 1 ELSE 0

\* the numeric literals of a tree that are not whitelisted and whose parent is not
\* an assignment, as lines, in the order a visitor meets them
RECURSIVE magic_lines(_, _)
RECURSIVE magic_lines_all(_, _)
magic_lines(node, parent_type) ==
    IF node.type = "Constant"
    THEN IF /\ node.kind \in {"int", "bool"}
            /\ node.value \notin {0, 1, -1, 2, 10, 100, 1000}
            /\ parent_type # "Assign"
         THEN <<node.lineno>>
         ELSE <<>>
    ELSE magic_lines_all(iter_child_nodes(node), node.type)

magic_lines_all(nodes, parent_type) ==
    IF nodes = <<>> THEN <<>>
    ELSE magic_lines(Head(nodes), parent_type) \o magic_lines_all(Tail(nodes), parent_type)

\* C19: magic_number is reported for a numeric literal exactly when its value is not
\* one of 0, 1, -1, 2, 10, 100, 1000 and its immediate ancestor is not an assignment;
\* a literal that is the right-hand side of an assignment is never reported.
ClaimC19 ==
    Returned("quality") =>
        lines_of(detected[1].issues[1], "magic_number")
        = magic_lines(content[1].tree, "None")

\* ====================================================== one Fix on one file
\* ------------------------------------------------------------ ast.parse on token text
\* the characters of an identifier token
chars(tok) ==
    CASE tok = "eval" -> <<"e", "v", "a", "l">>
      [] tok = "lit"  -> <<"l", "i", "t">>
      [] tok = "Exception" -> <<"E", "x", "c", "e", "p", "t", "i", "o", "n">>
      [] OTHER -> <<tok>>

\* the tokens that are an operand on their own
is_operand(tok) == tok \in {"x", "s", "m", "None"}

operand(tok, lineno) ==
    IF tok = "None" THEN NoneConstant(lineno) ELSE Name(chars(tok), lineno)

\* the tokens of a line without its blanks and its line break
stripped(line) == SelectSeq(line, LAMBDA t : t # " " /\ t # NL)

\* (op operand)*: the operators and the right-hand operands of a comparison, or
\* ok = FALSE when the tokens are no such list
RECURSIVE compare_tail(_, _)
compare_tail(toks, lineno) ==
    LET more(op, k) ==
            LET after == compare_tail(SubSeq(toks, k + 1, Len(toks)), lineno)
            IN  [ok |-> after.ok,
                 ops |-> <<op>> \o after.ops,
                 comparators |-> <<operand(toks[k], lineno)>> \o after.comparators]
        bad == [ok |-> FALSE, ops |-> <<>>, comparators |-> <<>>]
    IN  IF toks = <<>> THEN [ok |-> TRUE, ops |-> <<>>, comparators |-> <<>>]
        ELSE IF Len(toks) >= 3 /\ toks[1] = "is" /\ toks[2] = "not" /\ is_operand(toks[3])
        THEN more("IsNot", 3)
        ELSE IF Len(toks) >= 2 /\ toks[1] = "is" /\ is_operand(toks[2])
        THEN more("Is", 2)
        ELSE IF Len(toks) >= 2 /\ toks[1] = "==" /\ is_operand(toks[2])
        THEN more("Eq", 2)
        ELSE IF Len(toks) >= 2 /\ toks[1] = "!=" /\ is_operand(toks[2])
        THEN more("NotEq", 2)
        ELSE bad

\* the statement ast.parse makes of one line: a comparison, a call f(a), a wildcard
\* import, an except clause (a try statement is given by its handlers), or a
\* statement no detector looks at
parse_stmt(line, lineno) ==
    LET t == stripped(line)
        cmp == IF Len(t) >= 3 /\ is_operand(t[1])
               THEN compare_tail(Tail(t), lineno)
               ELSE [ok |-> FALSE, ops |-> <<>>, comparators |-> <<>>]
    IN  IF cmp.ok
        THEN Expr(Compare(operand(t[1], lineno), cmp.ops, cmp.comparators, lineno), lineno)
        ELSE IF Len(t) = 4 /\ t[2] = "(" /\ t[4] = ")"
        THEN Expr(Call(Name(chars(t[1]), lineno), <<operand(t[3], lineno)>>, lineno), lineno)
        ELSE IF Len(t) = 4 /\ t[1] = "from" /\ t[3] = "import"
        THEN [type |-> "ImportFrom", names |-> <<chars(t[4])>>, lineno |-> lineno]
        ELSE IF Len(t) >= 2 /\ t[1] = "except"
        THEN [type |-> "ExceptHandler", lineno |-> lineno, body |-> <<>>,
              type_ |-> IF t[2] = ":" THEN <<>> ELSE <<Name(chars(t[2]), lineno)>>]
        ELSE Pass(lineno)

\* ast.parse(content) for a text of the model: the statements line by line, or a
\* SyntaxError for a text the validator's parse rejects
ast_parse(text) ==
    IF ast_parse_ok(text)
    THEN LET lines == splitlines(text)
         IN  Parsed([l \in 1..Len(lines) |-> parse_stmt(lines[l], l)])
    ELSE SyntaxErrorAt(1)

\* ------------------------------------------------------------ the inputs
\* most lines in the file
MaxLines == 2

FixPath == "a.py"

\* x == None, x==None, x != None, x!=None, x ==  None, None == x, x is None,
\* x == None != None, eval(s)
FixLines ==
    { <<"x", " ", "==", " ", "None", NL>>,
      <<"x", "==", "None", NL>>,
      <<"x", " ", "!=", " ", "None", NL>>,
      <<"x", "!=", "None", NL>>,
      <<"x", " ", "==", " ", " ", "None", NL>>,
      <<"None", " ", "==", " ", "x", NL>>,
      <<"x", " ", "is", " ", "None", NL>>,
      <<"x", " ", "==", " ", "None", " ", "!=", " ", "None", NL>>,
      <<"eval", "(", "s", ")", NL>> }

\* the files of one line up to n lines
RECURSIVE FilesOf(_)
FilesOf(n) ==
    IF n = 1 THEN FixLines
    ELSE FilesOf(n - 1) \cup {f \o l : f \in {g \in FilesOf(n - 1) : Len(splitlines(g)) = n - 1},
                                       l \in FixLines}

\* the none_comparison Issue the detector reports for a line, and the Fix the
\* generator makes of it
NoneFixes ==
    {_fix_none_comparison([file |-> FixPath, line |-> l, type |-> "none_comparison"]) :
        l \in 1..MaxLines}

\* replacement texts of an AI Fix: one line, one line with its line break, two lines
NewCodes == {<<"s">>, <<"s", NL>>, <<"s", NL, "x">>}

\* AI Fixes with one change, at line 0, at a line of the file or at a line beyond
\* its end
ChangeFixes ==
    {_parse_ai_response([file |-> FixPath, line |-> 1, type |-> "dangerous_eval"], <<>>,
                        <<[line_number |-> l, new_code |-> c]>>) :
        l \in 0..(MaxLines + 1), c \in NewCodes}

InitFix ==
    /\ fs \in {[p \in {FixPath} |-> f] : f \in FilesOf(MaxLines)}
    /\ create_backup \in BOOLEAN
    /\ applied_fixes = <<>>
    /\ pc = "idle"
    /\ cur = None
    /\ batch = None
    /\ rest = None
    /\ result = None
    /\ applies = 0
    /\ entry = None
    /\ replaced = None
    /\ ScannerIdle /\ GeneratorIdle /\ DetectorIdle

\* the one apply_fix of a run
apply_one_fix(fix, dry_run) == applies = 0 /\ apply_fix(fix, dry_run)

NextFix ==
    \/ \E fix \in NoneFixes \cup ChangeFixes, dry_run \in BOOLEAN : apply_one_fix(fix, dry_run)
    \/ Backup
    \/ Write
    \/ ReturnToCaller

SpecFix == InitFix /\ [][NextFix]_vars

\* ------------------------------------------------------------ the claims
\* the lines of a text
line_count(text) == Len(splitlines(text))

\* C11: an apply_fix of a Fix with changes reports success only if the line_number
\* of every change is a line of the file as apply_fix found it, and then what it
\* wrote has as many lines as the file had: every edit replaces one line by one line.
ClaimC11 ==
    (ApplyReturned /\ result[1].success /\ get_changes(entry[1].fix) # <<>>) =>
        LET changes == get_changes(entry[1].fix)
            before == entry[1].fs[entry[1].fix.issue.file]
        IN  /\ \A i \in 1..Len(changes) :
                  1 <= changes[i].line_number /\ changes[i].line_number <= line_count(before)
            /\ ~entry[1].dry_run =>
                  line_count(fs[entry[1].fix.issue.file]) = line_count(before)

\* the lines at which a re-scan of a file reports none_comparison
rescan_none_lines(files, path) ==
    LET found == detect_patterns(path, ast_parse(files[path]))
    IN  {found[1][i].line : i \in {j \in 1..Len(found[1]) :
                                     found[1][j].type = "none_comparison"}}

\* C12: after the Fix for a none_comparison Issue the detector reported has been
\* applied successfully, a re-scan of the file reports no none_comparison Issue at
\* the line of the Fix.
ClaimC12 ==
    (/\ ApplyReturned
     /\ result[1].success
     /\ ~entry[1].dry_run
     /\ entry[1].fix.issue.type = "none_comparison"
     /\ entry[1].fix.issue.line \in rescan_none_lines(entry[1].fs, entry[1].fix.issue.file))
        => entry[1].fix.issue.line \notin rescan_none_lines(fs, entry[1].fix.issue.file)

\* ====================================================== scanning a directory
\* ------------------------------------------------------------ scanner/core/scanner.py
\* rglob(f"*{ext}") over the files under the root: those whose name ends in ext
rglob(files, ext) == SelectSeq(files, LAMBDA f : f.path.suffix = ext)

\* CodeScanner._find_code_files(extensions)
_find_code_files(files, extensions) ==
    concat([e \in 1..Len(extensions) |-> rglob(files, extensions[e])])

\* the dictionary _scan_file appends in its `except Exception`
scan_error(file) ==
    [file |-> file.path, type |-> "scan_error", severity |-> "error"]

\* CodeScanner._analyze_python_file, with the exception ignored instead of recorded
_analyze_python_file_silent(file) == <<>>

\* CodeScanner._analyze_python_file(file_path, content): what it appends to the
\* results when ast.parse returns or raises SyntaxError
_analyze_python_file(file) ==
    IF file.parsed.outcome = "SyntaxError"
    THEN <<[file |-> file.path, line |-> file.parsed.lineno, type |-> "syntax_error",
            severity |-> "critical"]>>
    ELSE <<>>

\* CodeScanner._scan_file(file_path): what it appends to the results
_scan_file(file) ==
    IF ~file.readable THEN <<scan_error(file)>>
    ELSE IF file.path.suffix # ".py" THEN <<>>
    ELSE IF file.parsed.outcome \in {"tree", "SyntaxError"} THEN _analyze_python_file(file)
    ELSE <<scan_error(file)>>

\* ------------------------------------------------------------ main.py
\* the body of the loop of BugFixingAssistant.scan_directory for one file: what the
\* detectors that returned before one raised add to the results
detector_issues(file) ==
    IF ~file.readable THEN <<>>
    ELSE LET pattern_issues == detect_patterns(file.path, file.parsed)
             security_issues == detect_security_issues(file.path, file.parsed)
             quality_issues == detect_quality_issues(file.path, file.parsed)
         IN  IF pattern_issues = None THEN <<>>
             ELSE IF security_issues = None THEN pattern_issues[1]
             ELSE IF quality_issues = None THEN pattern_issues[1] \o security_issues[1]
             ELSE pattern_issues[1] \o security_issues[1] \o quality_issues[1]

\* ------------------------------------------------------------ the inputs
\* most files under the root
MaxFiles == 2

PathOf(dirs, stem, suffix) == [dirs |-> dirs, stem |-> stem, suffix |-> suffix]

\* x == None / eval(x) / f(42): one Issue of each detector
BuggyBody ==
    << Expr(Compare(X(1), <<"Eq">>, <<NoneConstant(1)>>, 1), 1),
       Expr(Call(Name(<<"e", "v", "a", "l">>, 2), <<X(2)>>, 2), 2),
       Expr(Call(Name(<<"f">>, 3), <<Constant("int", 42, 3)>>, 3), 3) >>

\* the kinds of file: with one Issue per detector, without any, with a syntax
\* error, one the parser gives up on, one that cannot be read
FileOf(path, kind, size_mb) ==
    [path |-> path, size_mb |-> size_mb, readable |-> kind # "unreadable",
     parsed |-> CASE kind = "buggy"  -> Parsed(BuggyBody)
                  [] kind = "clean"  -> Parsed(<<Pass(1)>>)
                  [] kind = "broken" -> SyntaxErrorAt(1)
                  [] kind = "deep"   -> ParserGaveUp
                  [] OTHER           -> Parsed(<<>>)]

\* a.py and b.py, n.txt, venv/v.py, and big.py of 11 MB
CandidateFiles ==
    {FileOf(PathOf(<<>>, "a", ".py"), k, 1) :
        k \in {"buggy", "clean", "broken", "deep", "unreadable"}}
    \cup {FileOf(PathOf(<<>>, "b", ".py"), k, 1) : k \in {"buggy", "broken", "deep"}}
    \cup {FileOf(PathOf(<<>>, "n", ".txt"), k, 1) : k \in {"buggy", "broken"}}
    \cup {FileOf(PathOf(<<"venv">>, "v", ".py"), k, 1) : k \in {"buggy", "broken"}}
    \cup {FileOf(PathOf(<<>>, "big", ".py"), "buggy", 11)}

\* the listings of up to n files with different paths
RECURSIVE Listings(_)
Listings(n) ==
    IF n = 0 THEN {<<>>}
    ELSE LET shorter == Listings(n - 1)
         IN  shorter \cup
             {Append(q, f) : q \in {r \in shorter : Len(r) = n - 1},
                             f \in CandidateFiles}

DistinctPaths(files) ==
    \A i, j \in 1..Len(files) : files[i].path = files[j].path => i = j

\* scanner.file_extensions as configured
ConfiguredExtensions == {<<".py">>, <<".py", ".txt">>}

\* ------------------------------------------------------------ the actions
InitScan ==
    /\ root \in {q \in Listings(MaxFiles) : DistinctPaths(q)}
    /\ results = <<>>
    /\ scan = None
    /\ all_issues = <<>>
    /\ ApplicatorIdle /\ GeneratorIdle /\ DetectorIdle

\* BugFixingAssistant.scan_directory(directory) up to the loop of
\* CodeScanner.scan_directory: a new scanner, the extensions, the files found
scan_directory(extensions) ==
    /\ scan = None
    /\ results' = <<>>
    /\ scan' = Some([pc |-> "scan", extensions |-> extensions,
                     code_files |-> _find_code_files(root, extensions), i |-> 1])
    /\ UNCHANGED <<root, all_issues, applicator_vars, generator_vars, detector_vars>>

\* one turn of the loop of CodeScanner.scan_directory
ScanFile ==
    /\ scan # None
    /\ scan[1].pc = "scan"
    /\ scan[1].i <= Len(scan[1].code_files)
    /\ results' = results \o _scan_file(scan[1].code_files[scan[1].i])
    /\ scan' = Some([scan[1] EXCEPT !.i = @ + 1])
    /\ UNCHANGED <<root, all_issues, applicator_vars, generator_vars, detector_vars>>

\* CodeScanner.scan_directory returns its results; the files are found again
FindAgain ==
    /\ scan # None
    /\ scan[1].pc = "scan"
    /\ scan[1].i > Len(scan[1].code_files)
    /\ scan' = Some([scan[1] EXCEPT !.pc = "detect", !.i = 1,
                                    !.code_files = _find_code_files(root, scan[1].extensions)])
    /\ UNCHANGED <<root, results, all_issues, applicator_vars, generator_vars, detector_vars>>

\* one turn of the loop of BugFixingAssistant.scan_directory
DetectFile ==
    /\ scan # None
    /\ scan[1].pc = "detect"
    /\ scan[1].i <= Len(scan[1].code_files)
    /\ results' = results \o detector_issues(scan[1].code_files[scan[1].i])
    /\ scan' = Some([scan[1] EXCEPT !.i = @ + 1])
    /\ UNCHANGED <<root, all_issues, applicator_vars, generator_vars, detector_vars>>

\* self.all_issues = results; return results
ScanReturn ==
    /\ scan # None
    /\ scan[1].pc = "detect"
    /\ scan[1].i > Len(scan[1].code_files)
    /\ all_issues' = results
    /\ scan' = Some([scan[1] EXCEPT !.pc = "return"])
    /\ UNCHANGED <<root, results, applicator_vars, generator_vars, detector_vars>>

NextScan ==
    \/ \E extensions \in ConfiguredExtensions : scan_directory(extensions)
    \/ ScanFile
    \/ FindAgain
    \/ DetectFile
    \/ ScanReturn

SpecScan == InitScan /\ [][NextScan]_vars

\* ------------------------------------------------------------ the claims
ScanReturned == scan # None /\ scan[1].pc = "return"

\* the place of a file in the enumeration of the scan
enumerated_at(path) ==
    CHOOSE k \in 1..Len(scan[1].code_files) : scan[1].code_files[k].path = path

\* the detectors in the order of their registration, the scanner's parse first
stage_of(type) ==
    CASE type \in {"syntax_error", "scan_error"} -> 0
      [] type \in {"none_comparison", "bare_except", "mutable_default_argument",
                   "wildcard_import"} -> 1
      [] type \in {"dangerous_eval", "dangerous_exec", "unsafe_deserialization",
                   "insecure_module"} -> 2
      [] OTHER -> 3

\* C13: the Issues a scan returns are ordered file by file in the order the files
\* were enumerated, and within a file in detector-registration order: no Issue of
\* a later file precedes an Issue of an earlier file.
ClaimC13 ==
    ScanReturned =>
        \A i, j \in 1..Len(all_issues) :
            i < j =>
               /\ enumerated_at(all_issues[i].file) <= enumerated_at(all_issues[j].file)
               /\ all_issues[i].file = all_issues[j].file
                     => stage_of(all_issues[i].type) <= stage_of(all_issues[j].type)

\* the Issues of a list that one file has, in their order
issues_of_file(found, path) == SelectSeq(found, LAMBDA x : x.file = path)

\* the syntax_error Issues among them
syntax_errors(found) == SelectSeq(found, LAMBDA x : x.type = "syntax_error")

\* the parser does not make a tree of the file
fails_to_parse(file) == file.readable /\ file.parsed.outcome # "tree"

has_syntax_error(file) ==
    file.readable /\ file.path.suffix = ".py" /\ file.parsed.outcome = "SyntaxError"

exclude_patterns == {"venv", ".venv", "node_modules", "__pycache__", ".git"}

\* scanner.max_file_size_mb as configured
max_file_size_mb == 10

\* the path matches a configured exclusion pattern
excluded(path) == \E d \in 1..Len(path.dirs) : path.dirs[d] \in exclude_patterns

\* C15: a scan reports Issues only for files under the root that have a configured
\* extension, match no configured exclusion pattern and are no larger than the
\* configured maximum size.
ClaimC15 ==
    ScanReturned =>
        \A i \in 1..Len(all_issues) :
            \E k \in 1..Len(root) :
                /\ root[k].path = all_issues[i].file
                /\ \E e \in 1..Len(scan[1].extensions) :
                      root[k].path.suffix = scan[1].extensions[e]
                /\ ~excluded(root[k].path)
                /\ root[k].size_mb <= max_file_size_mb

\* ====================================================== generating fixes
\* ------------------------------------------------------------ main.py
\* BugFixingAssistant._generate_basic_fixes(issues)
RECURSIVE _generate_basic_fixes(_)
_generate_basic_fixes(issues) ==
    IF issues = <<>> THEN <<>>
    ELSE (IF generate_fix(Head(issues)) # None THEN generate_fix(Head(issues)) ELSE <<>>)
         \o _generate_basic_fixes(Tail(issues))

\* the keys of issues_by_file, in the order the dictionary got them
RECURSIVE files_of(_)
files_of(issues) ==
    IF issues = <<>> THEN <<>>
    ELSE LET before == files_of(SubSeq(issues, 1, Len(issues) - 1))
             file_path == issues[Len(issues)].file
         IN  IF \E k \in 1..Len(before) : before[k] = file_path
             THEN before
             ELSE Append(before, file_path)

\* issues_by_file.items(): every file with its issues in their order
issues_by_file(issues) ==
    LET files == files_of(issues)
    IN  [k \in 1..Len(files) |->
            [file_path |-> files[k],
             file_issues |-> SelectSeq(issues, LAMBDA x : x.file = files[k])]]

\* ------------------------------------------------------------ fixer/ai_fixer.py
\* the Fix _parse_ai_response builds from a reply that is not JSON
ai_response(issue, response_text) ==
    [issue |-> issue, fix_type |-> "ai_response", suggestion |-> response_text,
     automated |-> FALSE]

\* the Fix _generate_fix_anthropic and _generate_fix_openai build when the call of
\* the provider raises
ai_error(issue) ==
    [issue |-> issue, fix_type |-> "ai_error", suggestion |-> <<"Manual review required">>,
     automated |-> FALSE]

\* what the provider does with one request: a reply in JSON, a reply that is not
\* JSON, an exception
Outcomes == {"json", "text", "raise"}

\* AIFixer.generate_fix(issue, file_content) with an API key
ai_generate_fix(issue, outcome) ==
    CASE outcome = "json" -> _parse_ai_response(issue, <<"s">>, <<>>)
      [] outcome = "text" -> ai_response(issue, <<"s">>)
      [] OTHER            -> ai_error(issue)

\* AIFixer.generate_fixes_batch(issues, file_content) with an API key
generate_fixes_batch(issues, outcomes) ==
    [k \in 1..Len(issues) |-> ai_generate_fix(issues[k], outcomes[k])]

\* ------------------------------------------------------------ the inputs
\* most issues handed to generate_fixes
MaxIssues == 2

IssueMagic == [file |-> "a.py", line |-> 2, type |-> "magic_number"]
IssueSyntax == [file |-> "b.py", line |-> 1, type |-> "syntax_error"]

GenIssues == Issues \cup {IssueMagic, IssueSyntax}

\* the lists of up to n different issues
IssueLists(n) ==
    {q \in SeqsUpTo(GenIssues, n) : \A i, j \in 1..Len(q) : q[i] = q[j] => i = j}

\* ------------------------------------------------------------ the actions
InitGen ==
    /\ fs = [p \in {"a.py", "b.py"} |-> IF p = "a.py" THEN ContentA ELSE ContentB]
    /\ create_backup = TRUE
    /\ applied_fixes = <<>>
    /\ pc = "idle"
    /\ cur = None
    /\ batch = None
    /\ rest = None
    /\ result = None
    /\ applies = 0
    /\ entry = None
    /\ replaced = None
    /\ ScannerIdle /\ GeneratorIdle /\ DetectorIdle

GenUnchanged == UNCHANGED <<applicator_vars, scanner_vars, detector_vars>>

\* generate_fixes(issues, use_ai=False)
generate_fixes_basic(issues) ==
    /\ gen = None
    /\ all_fixes' = _generate_basic_fixes(issues)
    /\ gen' = Some([pc |-> "return", issues |-> issues, use_ai |-> FALSE,
                    groups |-> <<>>, k |-> 1, fixes |-> all_fixes', affected |-> {}])
    /\ UNCHANGED ai_fixer
    /\ GenUnchanged

\* generate_fixes(issues, use_ai=True) up to the construction of the AIFixer
generate_fixes_ai(issues) ==
    /\ gen = None
    /\ gen' = Some([pc |-> "init", issues |-> issues, use_ai |-> TRUE,
                    groups |-> <<>>, k |-> 1, fixes |-> <<>>, affected |-> {}])
    /\ UNCHANGED <<ai_fixer, all_fixes>>
    /\ GenUnchanged

\* AIFixer(provider, model, api_key) returns; the issues are grouped by file
AIFixerReady(api_key) ==
    /\ gen # None
    /\ gen[1].pc = "init"
    /\ ai_fixer = None
    /\ ai_fixer' = Some([api_key |-> api_key])
    /\ gen' = Some([gen[1] EXCEPT !.pc = "files", !.groups = issues_by_file(gen[1].issues)])
    /\ UNCHANGED all_fixes
    /\ GenUnchanged

\* AIFixer(provider, model, api_key) raises: the basic fixes of all the issues
AIFixerRaises ==
    /\ gen # None
    /\ gen[1].pc = "init"
    /\ ai_fixer = None
    /\ all_fixes' = _generate_basic_fixes(gen[1].issues)
    /\ gen' = Some([gen[1] EXCEPT !.pc = "return", !.fixes = all_fixes',
                                  !.affected = {gen[1].issues[i] : i \in 1..Len(gen[1].issues)}])
    /\ UNCHANGED ai_fixer
    /\ GenUnchanged

\* one turn of the loop over the files: the file is read and every issue of it is
\* put to the provider
AIFile(outcomes) ==
    /\ gen # None
    /\ gen[1].pc = "files"
    /\ gen[1].k <= Len(gen[1].groups)
    /\ gen[1].groups[gen[1].k].file_path \in DOMAIN fs
    /\ ai_fixer[1].api_key
    /\ Len(outcomes) = Len(gen[1].groups[gen[1].k].file_issues)
    /\ gen' = Some([gen[1] EXCEPT
            !.k = @ + 1,
            !.fixes = @ \o generate_fixes_batch(gen[1].groups[gen[1].k].file_issues, outcomes),
            !.affected = @ \cup {gen[1].groups[gen[1].k].file_issues[i] :
                                   i \in {j \in 1..Len(outcomes) : outcomes[j] = "raise"}}])
    /\ UNCHANGED <<ai_fixer, all_fixes>>
    /\ GenUnchanged

\* one turn of the loop over the files: the file cannot be opened, or
\* AIFixer.generate_fix raises for want of an API key: the basic fixes of the file
AIFileRaises ==
    /\ gen # None
    /\ gen[1].pc = "files"
    /\ gen[1].k <= Len(gen[1].groups)
    /\ (gen[1].groups[gen[1].k].file_path \notin DOMAIN fs \/ ~ai_fixer[1].api_key)
    /\ gen' = Some([gen[1] EXCEPT
            !.k = @ + 1,
            !.fixes = @ \o _generate_basic_fixes(gen[1].groups[gen[1].k].file_issues),
            !.affected = @ \cup
                IF gen[1].groups[gen[1].k].file_path \in DOMAIN fs
                THEN {gen[1].groups[gen[1].k].file_issues[i] :
                        i \in 1..Len(gen[1].groups[gen[1].k].file_issues)}
                ELSE {}])
    /\ UNCHANGED <<ai_fixer, all_fixes>>
    /\ GenUnchanged

\* self.all_fixes = fixes; return fixes
GenReturn ==
    /\ gen # None
    /\ gen[1].pc = "files"
    /\ gen[1].k > Len(gen[1].groups)
    /\ all_fixes' = gen[1].fixes
    /\ gen' = Some([gen[1] EXCEPT !.pc = "return"])
    /\ UNCHANGED ai_fixer
    /\ GenUnchanged

NextGen ==
    \/ \E issues \in IssueLists(MaxIssues) : generate_fixes_basic(issues)
    \/ \E issues \in IssueLists(MaxIssues) : generate_fixes_ai(issues)
    \/ \E api_key \in BOOLEAN : AIFixerReady(api_key)
    \/ AIFixerRaises
    \/ \E outcomes \in SeqsUpTo(Outcomes, MaxIssues) : AIFile(outcomes)
    \/ AIFileRaises
    \/ GenReturn

SpecGen == InitGen /\ [][NextGen]_vars

\* ------------------------------------------------------------ the claims
GenReturned == gen # None /\ gen[1].pc = "return"

\* the issue types the generator has a template for
fixable == {"none_comparison", "bare_except", "dangerous_eval", "wildcard_import"}

\* C16: generate_fix returns a Fix exactly for the issue types none_comparison,
\* bare_except, dangerous_eval and wildcard_import, with automated = false and the
\* issue it was given as its issue field, and None for every other type: the fixes
\* generated without the AI are one such Fix for every issue of these types, in
\* their order, and nothing else.
ClaimC16 ==
    (GenReturned /\ ~gen[1].use_ai) =>
        LET with_template == SelectSeq(gen[1].issues, LAMBDA x : x.type \in fixable)
        IN  /\ Len(all_fixes) = Len(with_template)
            /\ \A k \in 1..Len(all_fixes) :
                  /\ all_fixes[k].issue = with_template[k]
                  /\ all_fixes[k].automated = FALSE
            /\ \A k \in 1..Len(gen[1].issues) :
                  generate_fix(gen[1].issues[k]) = None
                     <=> gen[1].issues[k].type \notin fixable

\* fixes were generated without the AI for an issue with a template after one
\* without
WitnessC16 ==
    /\ GenReturned
    /\ ~gen[1].use_ai
    /\ Len(gen[1].issues) = 2
    /\ gen[1].issues[1].type = "magic_number"
    /\ gen[1].issues[2].type = "wildcard_import"
    /\ Len(all_fixes) = 1

\* C17: fix generation with the AI enabled always returns, and for every issue the
\* collaborator failed on (it could not be initialised, or it failed while
\* generating the fix of the issue) the fixes returned are exactly those of the
\* deterministic generator.
ClaimC17 ==
    (GenReturned /\ gen[1].use_ai) =>
        \A x \in gen[1].affected :
            SelectSeq(all_fixes, LAMBDA f : f.issue = x) = _generate_basic_fixes(<<x>>)

\* ====================================================== more on the detectors
is_function(node) == node.type \in {"FunctionDef", "AsyncFunctionDef"}

\* a default of a parameter, positional or keyword-only, is a list, dict or set
\* literal
has_mutable_default(args) ==
    \E d \in 1..Len(args.defaults \o args.kw_defaults) :
        (args.defaults \o args.kw_defaults)[d].type \in {"List", "Dict", "Set"}

\* C21: every function or method definition with a parameter, positional or
\* keyword-only, whose default is a list, dict or set literal gets a
\* mutable_default_argument Issue, severity warning, at its def line; a definition
\* without such a default gets none.
ClaimC21 ==
    Returned("pattern") =>
        LET nodes == preorder(content[1].tree)
            found == detected[1].issues[1]
        IN  /\ \A i \in 1..Len(found) :
                  found[i].type = "mutable_default_argument" => found[i].severity = "warning"
            /\ \A k \in 1..Len(nodes) :
                  is_function(nodes[k]) =>
                     (count_line(lines_of(found, "mutable_default_argument"), nodes[k].lineno) > 0
                        <=> has_mutable_default(nodes[k].args))

\* the name an alias of an import statement binds
bound_name(node, i) == IF node.asnames[i] = <<>> THEN node.names[i] ELSE node.asnames[i]

\* the statement binds the name: an import of it, or an assignment to it
binds(stmt, id) ==
    \/ stmt.type = "Import" /\ \E i \in 1..Len(stmt.names) : bound_name(stmt, i) = id
    \/ stmt.type = "Assign" /\ \E i \in 1..Len(stmt.targets) : is_name(stmt.targets[i], id)

\* at statement k of the module the name stands for the module pickle: the last
\* statement before it that binds the name is an import of pickle
resolves_to_pickle(body, k, id) ==
    \E j \in 1..(k - 1) :
        /\ binds(body[j], id)
        /\ \A m \in (j + 1)..(k - 1) : ~binds(body[m], id)
        /\ body[j].type = "Import"
        /\ \E i \in 1..Len(body[j].names) :
              bound_name(body[j], i) = id /\ body[j].names[i] = pickle

\* the statement is a call <name>.loads(...)
is_loads_call(stmt) ==
    /\ stmt.type = "Expr"
    /\ stmt.value.type = "Call"
    /\ stmt.value.func.type = "Attribute"
    /\ stmt.value.func.attr = loads
    /\ stmt.value.func.value.type = "Name"

RECURSIVE own_branches(_)
own_branches(nodes) ==
    IF nodes = <<>> THEN 0
    ELSE (IF is_function(Head(nodes)) THEN 0
          ELSE (IF Head(nodes).type \in {"If", "For", "While", "ExceptHandler", "With"}
                THEN 1 ELSE 0)
               + own_branches(iter_child_nodes(Head(nodes))))
         + own_branches(Tail(nodes))

\* C28: for every function the complexity checked at its exit is 1 plus the
\* if/for/while/except/with constructs of its own body at any depth, those of
\* nested functions left out, so high_complexity is reported for it iff that
\* exceeds 10; and the traversal ends in the state it began in.
ClaimC28 ==
    Returned("quality") =>
        LET nodes == preorder(content[1].tree)
            reported == lines_of(detected[1].issues[1], "high_complexity")
            final == quality_visit(DetectorPath, content[1].tree, QualityDetector)
        IN  /\ \A k \in 1..Len(nodes) :
                  is_function(nodes[k]) =>
                     count_line(reported, nodes[k].lineno)
                     = IF 1 + own_branches(nodes[k].body) > 10 THEN 1 ELSE 0
            /\ final.current_function = QualityDetector.current_function
            /\ final.complexity_count = QualityDetector.complexity_count

\* ====================================================== the validator on its own
\* most tokens in a text handed to the validator
MaxTokens == 2

\* tokens of a text: a name, brackets, a line break, and one that is no Python
ValidatorTokens == {"x", "(", ")", NL, "?"}

Languages == {"python", "javascript", ""}

InitValidate ==
    /\ validated \in {Some([original_code |-> o, fixed_code |-> f, language |-> g,
                            returned |-> None]) :
                        o \in SeqsUpTo(ValidatorTokens, MaxTokens),
                        f \in SeqsUpTo(ValidatorTokens, MaxTokens),
                        g \in Languages}
    /\ content = None
    /\ detected = None
    /\ ApplicatorIdle
    /\ ScannerIdle /\ GeneratorIdle

\* FixValidator.validate_fix(original_code, fixed_code)
ValidateFix ==
    /\ validated[1].returned = None
    /\ validated' = Some([validated[1] EXCEPT !.returned =
            Some([call |-> "validate_fix",
                  value |-> validate_fix(validated[1].original_code,
                                         validated[1].fixed_code)])])
    /\ UNCHANGED <<content, detected, applicator_vars, scanner_vars, generator_vars>>

\* FixValidator.validate_syntax(code, language)
ValidateSyntax ==
    /\ validated[1].returned = None
    /\ validated' = Some([validated[1] EXCEPT !.returned =
            Some([call |-> "validate_syntax",
                  value |-> validate_syntax(validated[1].fixed_code,
                                            validated[1].language)])])
    /\ UNCHANGED <<content, detected, applicator_vars, scanner_vars, generator_vars>>

NextValidate ==
    \/ ValidateFix
    \/ ValidateSyntax

SpecValidate == InitValidate /\ [][NextValidate]_vars

\* ------------------------------------------------------------ the claims
ValidatorReturned(call) ==
    /\ validated # None
    /\ validated[1].returned # None
    /\ validated[1].returned[1].call = call

\* C23: validate_fix(original, fixed) is valid exactly when fixed parses, whatever
\* original is; validate_syntax for a language other than python returns
\* valid = false with the message of an unsupported language.
ClaimC23 ==
    /\ ValidatorReturned("validate_fix") =>
          /\ validated[1].returned[1].value.valid = ast_parse_ok(validated[1].fixed_code)
          /\ \A o \in SeqsUpTo(ValidatorTokens, MaxTokens) :
                validate_fix(o, validated[1].fixed_code) = validated[1].returned[1].value
    /\ (ValidatorReturned("validate_syntax") /\ validated[1].language # "python") =>
          /\ validated[1].returned[1].value.valid = FALSE
          /\ validated[1].returned[1].value.message = "Unsupported language"

\* validate_fix found a fix valid whose original does not parse
WitnessC23 ==
    /\ ValidatorReturned("validate_fix")
    /\ validated[1].returned[1].value.valid
    /\ ~ast_parse_ok(validated[1].original_code)

\* ====================================================== the edits of apply_fix
\* ------------------------------------------------------------ the inputs
\* x == None, from m import *, eval(s)
EditLines ==
    { <<"x", " ", "==", " ", "None", NL>>,
      <<"from", " ", "m", " ", "import", " ", "*", NL>>,
      <<"eval", "(", "s", ")", NL>> }

\* try: pass / except: pass
TryFile == <<"try", ":", " ", "pass", NL, "except", ":", " ", "pass", NL>>

\* the files of one line up to n lines that end in a line break
RECURSIVE EndedFiles(_)
EndedFiles(n) ==
    IF n = 1 THEN EditLines
    ELSE EndedFiles(n - 1) \cup {TryFile}
         \cup {f \o l : f \in {g \in EndedFiles(n - 1) : Len(splitlines(g)) = n - 1},
                        l \in EditLines}

\* the same files, and each of them without the line break of its last line
EditFiles(n) == EndedFiles(n) \cup {SubSeq(f, 1, Len(f) - 1) : f \in EndedFiles(n)}

MissingPath == "gone.py"

EditTypes == {"none_comparison", "bare_except", "wildcard_import", "dangerous_eval"}

\* suggestion texts: none, one line, one line Python does not parse, two lines
Suggestions == {<<>>, <<"s">>, <<"(", NL>>, <<"s", NL, "x">>}

\* issues of the file at line 0, at a line of the file, beyond its end and with
\* no line, and one issue of a file that is not there
EditIssues ==
    {[file |-> FixPath, line |-> l, type |-> t] : l \in 0..(MaxLines + 1), t \in EditTypes}
    \cup {[file |-> FixPath, type |-> t] : t \in EditTypes}
    \cup {[file |-> MissingPath, line |-> 1, type |-> "wildcard_import"]}

\* Fixes that carry no changes
SimpleFixes == {ai_response(i, s) : i \in EditIssues, s \in Suggestions}

\* replacement texts of a change: the empty text, one line without its line break,
\* one line Python does not parse
EditCodes == {<<>>, <<"s">>, <<"(", NL>>}

EditChanges == {[line_number |-> l, new_code |-> c] : l \in 1..(MaxLines + 1), c \in EditCodes}

\* AI Fixes with one change or two
ManyChangeFixes ==
    {_parse_ai_response([file |-> FixPath, line |-> 1, type |-> "dangerous_eval"], <<>>, q) :
        q \in {<<c>> : c \in EditChanges} \cup {<<c, d>> : c \in EditChanges, d \in EditChanges}}

\* ------------------------------------------------------------ the actions
InitEdit ==
    /\ fs \in {[p \in {FixPath} |-> f] : f \in EditFiles(MaxLines)}
    /\ create_backup = TRUE
    /\ applied_fixes = <<>>
    /\ pc = "idle"
    /\ cur = None
    /\ batch = None
    /\ rest = None
    /\ result = None
    /\ applies = 0
    /\ entry = None
    /\ replaced = None
    /\ ScannerIdle /\ GeneratorIdle /\ DetectorIdle

NextEdit ==
    \/ \E fix \in SimpleFixes \cup ManyChangeFixes, dry_run \in BOOLEAN :
          apply_one_fix(fix, dry_run)
    \/ Backup
    \/ Write
    \/ ReturnToCaller

SpecEdit == InitEdit /\ [][NextEdit]_vars

\* ------------------------------------------------------------ the claims
\* an apply_fix returned that found its file and met no failure of the filesystem
ApplyRead ==
    /\ ApplyReturned
    /\ entry # None
    /\ entry[1].fix.issue.file \in DOMAIN entry[1].fs
    /\ "error" \notin DOMAIN result[1]

\* the file as that apply_fix found it
original_of(call) == call.fs[call.fix.issue.file]

\* lines with line k replaced by one line
with_line(lines, k, line) == join([lines EXCEPT ![k] = line])

\* the types _apply_simple_fix has a rule of its own for
own_rule == {"none_comparison", "bare_except", "wildcard_import"}

\* a suggestion of exactly one line
one_line(suggestion) == suggestion # <<>> /\ Len(splitlines(suggestion)) = 1

\* what the rule of a type makes of the line: the comparisons with None rewritten,
\* the bare handler made a handler of Exception, nothing for a wildcard import
by_own_rule(type, line) ==
    CASE type = "none_comparison" ->
            Some(replace(replace(line, <<"==", " ", "None">>, <<"is", " ", "None">>),
                         <<"!=", " ", "None">>, <<"is", " ", "not", " ", "None">>))
      [] type = "bare_except" ->
            Some(replace(line, <<"except", ":">>, <<"except", " ", "Exception", ":">>))
      [] OTHER -> None

\* C26: for a Fix with empty changes at a line of the file, the suggestion replaces
\* the line only when the type is none of none_comparison, bare_except and
\* wildcard_import and the suggestion is exactly one line: a Fix of one of the three
\* types has its line rewritten by the rule of its type or has no candidate (a
\* bare_except Fix only ever has `except:` replaced by `except Exception:`), and a
\* suggestion of no line or of several is never substituted, the apply declines and
\* writes nothing.
ClaimC26 ==
    (/\ ApplyRead
     /\ get_changes(entry[1].fix) = <<>>
     /\ get_line(entry[1].fix.issue) \in 1..line_count(original_of(entry[1])))
        => LET fix == entry[1].fix
               lines == splitlines(original_of(entry[1]))
               k == get_line(fix.issue)
               candidate == _apply_simple_fix(fix, original_of(entry[1]))
           IN  /\ fix.issue.type \in own_rule =>
                     \/ candidate = None
                     \/ /\ by_own_rule(fix.issue.type, lines[k]) # None
                        /\ candidate = Some(with_line(lines, k,
                                                by_own_rule(fix.issue.type, lines[k])[1]))
               /\ (fix.issue.type \notin own_rule /\ one_line(fix.suggestion)) =>
                     candidate = Some(with_line(lines, k, with_nl(fix.suggestion)))
               /\ (fix.issue.type \notin own_rule /\ ~one_line(fix.suggestion)) =>
                     /\ candidate = None
                     /\ ~result[1].success
                     /\ fs = entry[1].fs

\* an apply_fix of a wildcard_import Fix with no changes returned
WildcardReturned ==
    /\ ApplyReturned
    /\ entry # None
    /\ get_changes(entry[1].fix) = <<>>
    /\ entry[1].fix.issue.type = "wildcard_import"

could_not_apply == <<"Could not apply fix to content">>

\* C27: for a Fix with empty changes whose issue type is wildcard_import, apply_fix
\* always returns success = false with the message "Could not apply fix to content"
\* and writes nothing, whatever the suggestion is.
ClaimC27 ==
    WildcardReturned =>
        /\ ~result[1].success
        /\ result[1].message = could_not_apply
        /\ fs = entry[1].fs

\* C27 as amended: for a Fix with empty changes whose issue type is wildcard_import,
\* apply_fix always returns success = false and writes nothing, whatever the
\* suggestion is, and whenever the file exists and is read the message is "Could
\* not apply fix to content"; otherwise the result is that of the missing file or
\* of the failed read, returned and not raised.
AmendedC27 ==
    WildcardReturned =>
        /\ ~result[1].success
        /\ fs = entry[1].fs
        /\ applied_fixes = entry[1].applied_fixes
        /\ IF entry[1].fix.issue.file \notin DOMAIN entry[1].fs
           THEN result[1].message = <<"File not found: ", entry[1].fix.issue.file>>
           ELSE \/ result[1].message = could_not_apply
                \/ result[1] = Raised(entry[1].fix, "read")

\* a real run of a wildcard_import Fix at the import line of the file, with a
\* suggestion of one line that parses, was declined
WitnessC27 ==
    /\ WildcardReturned
    /\ ApplyRead
    /\ ~entry[1].dry_run
    /\ entry[1].fix.suggestion = <<"s">>
    /\ original_of(entry[1]) = <<"from", " ", "m", " ", "import", " ", "*", NL>>
    /\ get_line(entry[1].fix.issue) = 1
    /\ result[1].message = could_not_apply
    /\ fs = entry[1].fs

\* the text with a line break at its end
newline_terminated(text) ==
    IF text # <<>> /\ text[Len(text)] = NL THEN text ELSE Append(text, NL)

\* the changes name lines of the text, no line twice
distinct_in_range(changes, text) ==
    /\ changes # <<>>
    /\ \A i \in 1..Len(changes) :
          /\ "new_code" \in DOMAIN changes[i]
          /\ changes[i].line_number \in 1..line_count(text)
    /\ \A i, j \in 1..Len(changes) :
          changes[i].line_number = changes[j].line_number => i = j

\* the text with every line a change names replaced by the new_code of the change
replaced_lines(changes, text) ==
    join([l \in 1..line_count(text) |->
            IF \E i \in 1..Len(changes) : changes[i].line_number = l
            THEN newline_terminated(
                     changes[CHOOSE i \in 1..Len(changes) : changes[i].line_number = l].new_code)
            ELSE splitlines(text)[l]])

\* the orderings of a list
orderings(q) ==
    {[k \in 1..Len(q) |-> q[p[k]]] :
        p \in {f \in [1..Len(q) -> 1..Len(q)] : \A i, j \in 1..Len(q) : f[i] = f[j] => i = j}}

\* C25: for a Fix whose changes have pairwise distinct line numbers, all of them
\* lines of the file, the candidate is the original with each named line replaced by
\* its new_code, ended by a line break, and every other line as it was; the
\* candidate is the same for every ordering of the changes, and it is what a
\* successful real run leaves in the file.
ClaimC25 ==
    (/\ ApplyRead
     /\ distinct_in_range(get_changes(entry[1].fix), original_of(entry[1])))
        => LET fix == entry[1].fix
               expected == replaced_lines(get_changes(fix), original_of(entry[1]))
           IN  /\ \A q \in orderings(get_changes(fix)) :
                     _apply_fix_to_content([fix EXCEPT !.changes = q], original_of(entry[1]))
                        = Some(expected)
               /\ (result[1].success /\ ~entry[1].dry_run) => fs[fix.issue.file] = expected
               /\ ~result[1].success => result[1].message # could_not_apply

\* a real run replaced both lines of a file of two lines, the changes given with
\* the first line first, the last line of the file without a line break
WitnessC25 ==
    /\ ApplyRead
    /\ ~entry[1].dry_run
    /\ result[1].success
    /\ Len(get_changes(entry[1].fix)) = 2
    /\ get_changes(entry[1].fix)[1].line_number = 1
    /\ get_changes(entry[1].fix)[2].line_number = 2
    /\ get_changes(entry[1].fix)[1].new_code = <<"s">>
    /\ get_changes(entry[1].fix)[2].new_code = <<>>
    /\ original_of(entry[1]) = <<"x", " ", "==", " ", "None", NL, "eval", "(", "s", ")">>
    /\ fs[FixPath] = <<"s", NL, NL>>

\* C29: a candidate made for a Fix with empty changes differs from the original in
\* the line issue.line at most: it has as many lines, and every other line is as
\* it was and where it was; when issue.line is absent or no line of the file there
\* is no candidate, the apply fails and writes nothing; and what a successful real
\* run writes is the candidate.
ClaimC29 ==
    (ApplyRead /\ get_changes(entry[1].fix) = <<>>)
        => LET fix == entry[1].fix
               lines == splitlines(original_of(entry[1]))
               k == get_line(fix.issue)
               candidate == _apply_simple_fix(fix, original_of(entry[1]))
           IN  /\ candidate # None =>
                     /\ k \in 1..Len(lines)
                     /\ line_count(candidate[1]) = Len(lines)
                     /\ \A l \in 1..Len(lines) :
                           l # k => splitlines(candidate[1])[l] = lines[l]
               /\ k \notin 1..Len(lines) =>
                     /\ candidate = None
                     /\ ~result[1].success
                     /\ result[1].message = could_not_apply
                     /\ fs = entry[1].fs
               /\ (result[1].success /\ ~entry[1].dry_run) =>
                     /\ candidate # None
                     /\ fs[fix.issue.file] = candidate[1]

\* a real run put a suggestion without a line break in the place of the first of
\* two lines, and the second line is as it was
WitnessC29 ==
    /\ ApplyRead
    /\ get_changes(entry[1].fix) = <<>>
    /\ ~entry[1].dry_run
    /\ result[1].success
    /\ entry[1].fix.issue.type = "dangerous_eval"
    /\ get_line(entry[1].fix.issue) = 1
    /\ entry[1].fix.suggestion = <<"s">>
    /\ original_of(entry[1]) = <<"eval", "(", "s", ")", NL, "x", " ", "==", " ", "None", NL>>
    /\ fs[FixPath] = <<"s", NL, "x", " ", "==", " ", "None", NL>>

\* what apply_fix returns for a Fix and the files it finds when no step of the
\* filesystem fails, as a function of the two alone: success, message, the diff of
\* a success and the candidate behind it
outcome_of(fix, files) ==
    IF fix.issue.file \notin DOMAIN files
    THEN [success |-> FALSE, message |-> <<"File not found: ", fix.issue.file>>]
    ELSE LET candidate == _apply_fix_to_content(fix, files[fix.issue.file])
         IN  IF candidate = None
             THEN [success |-> FALSE, message |-> could_not_apply]
             ELSE IF ~validate_syntax(candidate[1], "python").valid
             THEN [success |-> FALSE,
                   message |-> <<"Fix introduces syntax errors: ",
                                 validate_syntax(candidate[1], "python").message>>]
             ELSE [success |-> TRUE, message |-> <<"Fix applied successfully">>,
                   diff |-> _generate_diff(files[fix.issue.file], candidate[1], fix.issue.file),
                   candidate |-> candidate[1]]

\* C30: for the same Fix and the same files, apply_fix with dry_run = true and with
\* dry_run = false return, when no step of the filesystem fails, the same success,
\* message and diff: each is the one the Fix and the files determine, whatever
\* dry_run is; and what the real run writes is the candidate that was validated and
\* diffed.
ClaimC30 ==
    (ApplyReturned /\ entry # None /\ "error" \notin DOMAIN result[1])
        => LET expected == outcome_of(entry[1].fix, entry[1].fs)
           IN  /\ result[1].success = expected.success
               /\ result[1].message = expected.message
               /\ IF expected.success
                  THEN result[1].diff = expected.diff
                  ELSE "diff" \notin DOMAIN result[1]
               /\ (expected.success /\ ~entry[1].dry_run) =>
                     fs[entry[1].fix.issue.file] = expected.candidate

\* a real run rewrote the comparison with None in the first of two lines and
\* returned the diff of the two contents
WitnessC30 ==
    /\ ApplyRead
    /\ ~entry[1].dry_run
    /\ result[1].success
    /\ entry[1].fix.issue.type = "none_comparison"
    /\ get_line(entry[1].fix.issue) = 1
    /\ original_of(entry[1]) = <<"x", " ", "==", " ", "None", NL, "eval", "(", "s", ")", NL>>
    /\ fs[FixPath] = <<"x", " ", "is", " ", "None", NL, "eval", "(", "s", ")", NL>>
    /\ result[1].diff = _generate_diff(original_of(entry[1]), fs[FixPath], FixPath)
    /\ result[1].diff # <<>>

\* the lines of a hunk behind one of the marks, without the mark
RECURSIVE unmarked(_, _)
unmarked(body, marks) ==
    IF body = <<>> THEN <<>>
    ELSE (IF Head(body)[1] \in marks THEN <<Tail(Head(body))>> ELSE <<>>)
         \o unmarked(Tail(body), marks)

\* the header of a hunk that replaces m lines after line s by n lines
hunk_header(s, m, n) ==
    "@@ -" \o _format_range_unified(s, s + m) \o " +" \o _format_range_unified(s, s + n)
           \o " @@"

\* a unified diff of one hunk applied to a text, line by line as patch does: the
\* two file headers and the hunk header are lines of their own, every line of the
\* hunk is a mark and a line that ends in a line break, the lines behind " " and
\* "-" are the lines of the text at the place the header names, and the lines
\* behind " " and "+" take their place; an empty diff changes nothing. None when
\* the diff is not of this form or does not fit the text.
apply_patch(text, diff, filename) ==
    IF diff = <<>> THEN Some(text)
    ELSE LET patch == splitlines(diff)
             a == splitlines(text)
         IN  IF Len(patch) < 4 THEN None
             ELSE IF \/ patch[1] # <<"--- a/" \o filename, NL>>
                     \/ patch[2] # <<"+++ b/" \o filename, NL>>
                  THEN None
             ELSE IF \E k \in 4..Len(patch) :
                        \/ patch[k][1] \notin {" ", "-", "+"}
                        \/ patch[k][Len(patch[k])] # NL
                  THEN None
             ELSE LET body == SubSeq(patch, 4, Len(patch))
                      old == unmarked(body, {" ", "-"})
                      new == unmarked(body, {" ", "+"})
                      starts == {s \in 0..(Len(a) - Len(old)) :
                                    /\ SubSeq(a, s + 1, s + Len(old)) = old
                                    /\ patch[3] = <<hunk_header(s, Len(old), Len(new)), NL>>}
                  IN  IF starts = {} THEN None
                      ELSE LET s == CHOOSE s \in starts : TRUE
                           IN  Some(join(SubSeq(a, 1, s) \o new
                                         \o SubSeq(a, s + Len(old) + 1, Len(a))))

\* C24: for every successful apply, the diff it returns, applied to the original
\* content, gives the candidate content exactly, also when the last line of either
\* has no line break.
ClaimC24 ==
    (ApplyReturned /\ entry # None /\ result[1].success)
        => apply_patch(original_of(entry[1]), result[1].diff, entry[1].fix.issue.file)
              = _apply_fix_to_content(entry[1].fix, original_of(entry[1]))

====
